---------------------------- MODULE Spec2Model ----------------------------
(***************************************************************************)
(* Verification model of the election-source aggregation pipeline:         *)
(* the batch aggregators, the per-seed orchestrator, the candidate         *)
(* research sequencer, the model gateway call, and the two reply parsers   *)
(* (validateRawPositions, parseAIGeneratedJson).                           *)
(*                                                                         *)
(* A reply text is a sequence of lexical tokens <<kind, lexeme>>:          *)
(*   "p" punctuation  { } [ ] : ,      "s" a JSON string literal           *)
(*   "n" a JSON number literal         "l" null / true / false             *)
(*   "w" a word of prose (not JSON)                                        *)
(* A JavaScript value is a tagged record (JNull, JStr, JNum, ...).         *)
(***************************************************************************)
EXTENDS Integers, Sequences, FiniteSets, TLC

(***************************************************************************)
(* Bounds of the model.                                                    *)
(***************************************************************************)
\* largest number of seed elections the data source returns
MaxSeeds == 4
\* largest number of positions in a sample research reply
MaxPositions == 2
\* largest configured election limit (0: no limit)
MaxLimit == 1
\* largest number of elements of an array in a parser input
MaxElements == 2

(***************************************************************************)
(* Program constants.                                                      *)
(***************************************************************************)
\* helpers.ts: retryWithBackoff(fn, maxRetries = 3, initialDelay = 1000)
DefaultMaxRetries == 3
DefaultInitialDelay == 1000
\* data-aggregator: chunkArray(basicElections, 3)
AggregatorChunkSize == 3
\* the sequencer's timeout between two positions, in ms
PositionDelayMs == 30000

(***************************************************************************)
(* JavaScript values.                                                      *)
(***************************************************************************)
Undefined == [t |-> "undef"]
JNull == [t |-> "null"]
JBool(b) == [t |-> "bool", b |-> b]
JStr(s) == [t |-> "str", s |-> s]
JNum(n) == [t |-> "num", n |-> n]
JNaN == [t |-> "nan"]
JArr(a) == [t |-> "arr", a |-> a]
JObj(o) == [t |-> "obj", o |-> o]
JDate(d) == [t |-> "date", d |-> d]
InvalidDate == [t |-> "date", d |-> "Invalid Date"]

\* ToBoolean: the test of `!x` and of `x || y`
Truthy(v) ==
  CASE v.t = "undef" -> FALSE
    [] v.t = "null" -> FALSE
    [] v.t = "nan" -> FALSE
    [] v.t = "bool" -> v.b
    [] v.t = "num" -> v.n # 0
    [] v.t = "str" -> v.s # ""
    [] OTHER -> TRUE

\* x || y
OrElse(x, y) == IF Truthy(x) THEN x ELSE y

\* x.key throws a TypeError exactly when x is null or undefined
GetThrows(x) == x.t \in {"null", "undef"}

\* x.key when it does not throw: own property of an object, undefined otherwise
\* (the keys of the model are never prototype properties of strings or arrays)
Get(x, key) ==
  IF x.t = "obj" /\ key \in DOMAIN x.o THEN x.o[key] ELSE Undefined

IsArray(x) == x.t = "arr"

(***************************************************************************)
(* Tokens and JSON.parse.                                                  *)
(***************************************************************************)
LC == <<"p", "{">>
RC == <<"p", "}">>
LB == <<"p", "[">>
RB == <<"p", "]">>
COLON == <<"p", ":">>
COMMA == <<"p", ",">>

\* the value of a number literal
NumVal(lex) ==
  CASE lex = "0" -> 0
    [] lex = "1" -> 1
    [] lex = "2" -> 2
    [] lex = "3" -> 3
    [] lex = "5" -> 5
    [] OTHER -> 7

\* the value of a keyword literal
LitVal(lex) ==
  CASE lex = "null" -> JNull
    [] lex = "true" -> JBool(TRUE)
    [] OTHER -> JBool(FALSE)

Bad == [ok |-> FALSE, v |-> Undefined, next |-> 0]

RECURSIVE ParseValue(_, _)
RECURSIVE ParseMembers(_, _, _)
RECURSIVE ParseElements(_, _, _)

\* the members of an object after "{" or ",": key : value, then "," or "}"
ParseMembers(toks, i, acc) ==
  IF i + 1 > Len(toks) \/ toks[i][1] # "s" \/ toks[i + 1] # COLON THEN Bad
  ELSE LET r == ParseValue(toks, i + 2)
       IN  IF ~r.ok \/ r.next > Len(toks) THEN Bad
           ELSE LET acc2 == (toks[i][2] :> r.v) @@ acc
                IN  IF toks[r.next] = RC
                      THEN [ok |-> TRUE, v |-> JObj(acc2), next |-> r.next + 1]
                    ELSE IF toks[r.next] = COMMA
                      THEN ParseMembers(toks, r.next + 1, acc2)
                    ELSE Bad

\* the elements of an array after "[" or ",": value, then "," or "]"
ParseElements(toks, i, acc) ==
  LET r == ParseValue(toks, i)
  IN  IF ~r.ok \/ r.next > Len(toks) THEN Bad
      ELSE IF toks[r.next] = RB
        THEN [ok |-> TRUE, v |-> JArr(Append(acc, r.v)), next |-> r.next + 1]
      ELSE IF toks[r.next] = COMMA
        THEN ParseElements(toks, r.next + 1, Append(acc, r.v))
      ELSE Bad

\* one JSON value starting at token i
ParseValue(toks, i) ==
  IF i > Len(toks) THEN Bad
  ELSE LET tk == toks[i]
       IN  CASE tk[1] = "s" -> [ok |-> TRUE, v |-> JStr(tk[2]), next |-> i + 1]
             [] tk[1] = "n" -> [ok |-> TRUE, v |-> JNum(NumVal(tk[2])), next |-> i + 1]
             [] tk[1] = "l" -> [ok |-> TRUE, v |-> LitVal(tk[2]), next |-> i + 1]
             [] tk = LC ->
                  IF i + 1 <= Len(toks) /\ toks[i + 1] = RC
                    THEN [ok |-> TRUE, v |-> JObj(<<>>), next |-> i + 2]
                    ELSE ParseMembers(toks, i + 1, <<>>)
             [] tk = LB ->
                  IF i + 1 <= Len(toks) /\ toks[i + 1] = RB
                    THEN [ok |-> TRUE, v |-> JArr(<<>>), next |-> i + 2]
                    ELSE ParseElements(toks, i + 1, <<>>)
             [] OTHER -> Bad

\* JSON.parse(text): the whole text must be one value; a SyntaxError otherwise
JsonParse(toks) ==
  LET r == ParseValue(toks, 1)
  IN  IF r.ok /\ r.next = Len(toks) + 1
        THEN [ok |-> TRUE, v |-> r.v]
        ELSE [ok |-> FALSE, v |-> Undefined]

\* text.match(/\{[\s\S]*\}/): from the first "{" to the last "}" after it
Opens(toks) == {i \in 1..Len(toks) : toks[i] = LC}
Closes(toks) == {i \in 1..Len(toks) : toks[i] = RC}
SetMin(S) == CHOOSE x \in S : \A y \in S : x <= y
SetMax(S) == CHOOSE x \in S : \A y \in S : x >= y
\* a variant that ends the match at the first "}" after the first "{"
BraceSpanShortest(toks, opens, closes) ==
  IF opens # {} /\ closes # {} /\ SetMax(closes) > SetMin(opens)
    THEN [found |-> TRUE,
          span |-> SubSeq(toks, SetMin(opens),
                          SetMin({c \in closes : c > SetMin(opens)}))]
    ELSE [found |-> FALSE, span |-> <<>>]

\* the match between the braces at the positions `opens` and `closes`
BraceSpan(toks, opens, closes) ==
  IF opens # {} /\ closes # {} /\ SetMax(closes) > SetMin(opens)
    THEN [found |-> TRUE, span |-> SubSeq(toks, SetMin(opens), SetMax(closes))]
    ELSE [found |-> FALSE, span |-> <<>>]
BraceMatch(toks) == BraceSpan(toks, Opens(toks), Closes(toks))

(***************************************************************************)
(* String conversions of the parsers.  Strings are opaque, so conversions  *)
(* are tables over the strings that occur in the sample replies.           *)
(***************************************************************************)
\* s.toUpperCase()
ToUpperCase(s) ==
  CASE s \in {"local", "Local", "LOCAL"} -> "LOCAL"
    [] s \in {"state", "State", "STATE"} -> "STATE"
    [] s \in {"federal", "Federal", "FeDeRaL", "FEDERAL"} -> "FEDERAL"
    [] s \in {"national", "National", "NATIONAL"} -> "NATIONAL"
    [] s \in {"university", "University", "UNIVERSITY"} -> "UNIVERSITY"
    [] s = "county" -> "COUNTY"
    [] s = "true" -> "TRUE"
    [] s = "false" -> "FALSE"
    [] OTHER -> s

\* the decimal numeral of a small integer
Numeral(n) ==
  CASE n = 0 -> "0" [] n = 1 -> "1" [] n = 2 -> "2" [] n = 3 -> "3"
    [] n = 5 -> "5" [] OTHER -> "7"

\* String(v)
ToStr(v) ==
  CASE v.t = "str" -> v.s
    [] v.t = "num" -> Numeral(v.n)
    [] v.t = "bool" -> IF v.b THEN "true" ELSE "false"
    [] v.t = "null" -> "null"
    [] v.t = "undef" -> "undefined"
    [] v.t = "nan" -> "NaN"
    [] v.t = "arr" -> IF v.a = <<>> THEN "" ELSE "a,b"
    [] OTHER -> "[object Object]"

\* parseInt(s, 10) of a string: its leading integer numeral, NaN without one
ParseIntStr(s) ==
  CASE s = "0" -> JNum(0)
    [] s = "-1" -> JNum(-1)
    [] s = "1" -> JNum(1)
    [] s = "2" -> JNum(2)
    [] s \in {"3", "3 seats"} -> JNum(3)
    [] s = "5" -> JNum(5)
    [] s = "7" -> JNum(7)
    [] OTHER -> JNaN

\* parseInt(v, 10): the argument is converted with String first
ParseInt(v) == ParseIntStr(ToStr(v))

\* new Date(s) of a string: a calendar date, Invalid Date otherwise
ParseDateStr(s) ==
  IF s \in {"2025-03-25", "2025-04-01", "2025-11-04"} THEN JDate(s) ELSE InvalidDate

(***************************************************************************)
(* Seed elections (BasicElection).                                         *)
(***************************************************************************)
SeedNames == <<"Election A", "Election B", "Election C", "Election D", "Election E">>
Seed(s) == [name |-> SeedNames[s], date |-> JDate("2025-03-25")]

(***************************************************************************)
(* ElectionType                                                            *)
(***************************************************************************)
ElectionType == {"LOCAL", "STATE", "NATIONAL", "UNIVERSITY"}

(***************************************************************************)
(* validateRawPositions                                                    *)
(***************************************************************************)
\* a variant of the switch that compares position_type as it is written
PositionTypeCaseSensitive(position) ==
  LET typeStr == ToStr(OrElse(Get(position, "position_type"), JStr("")))
  IN  CASE typeStr = "LOCAL" -> "LOCAL"
        [] typeStr = "STATE" -> "STATE"
        [] typeStr \in {"FEDERAL", "NATIONAL"} -> "NATIONAL"
        [] typeStr = "UNIVERSITY" -> "UNIVERSITY"
        [] OTHER -> "LOCAL"

\* the switch on typeStr
PositionType(position) ==
  LET typeStr == ToUpperCase(ToStr(OrElse(Get(position, "position_type"), JStr(""))))
  IN  CASE typeStr = "LOCAL" -> "LOCAL"
        [] typeStr = "STATE" -> "STATE"
        [] typeStr \in {"FEDERAL", "NATIONAL"} -> "NATIONAL"
        [] typeStr = "UNIVERSITY" -> "UNIVERSITY"
        [] OTHER -> "LOCAL"

\* a variant that returns what parseInt returns
PositionsCountUnchecked(positions) == positions

\* isNaN(positions) ? 1 : positions
PositionsCount(positions) == IF positions.t = "nan" THEN JNum(1) ELSE positions

\* a variant of the callback that keeps a position without a name
MapPositionKeepsUnnamed(position, basicElection) ==
  IF GetThrows(position)
    THEN [threw |-> TRUE, keep |-> FALSE, value |-> Undefined]
  ELSE [threw |-> FALSE, keep |-> TRUE, value |->
         [positionName |-> Get(position, "position_name"),
          electionDate |-> basicElection.date,
          city |-> OrElse(Get(position, "city"), JStr("")),
          state |-> OrElse(Get(position, "state"), JStr("")),
          description |-> OrElse(Get(position, "description"),
                                 JStr("Position for " \o basicElection.name)),
          type |-> JStr(PositionType(position)),
          positions |-> PositionsCount(ParseInt(Get(position, "positions")))]]

\* a variant of the callback that takes the date the position states
MapPositionStatedDate(position, basicElection) ==
  IF GetThrows(position)
    THEN [threw |-> TRUE, keep |-> FALSE, value |-> Undefined]
  ELSE IF ~Truthy(Get(position, "position_name"))
    THEN [threw |-> FALSE, keep |-> FALSE, value |-> JNull]
  ELSE [threw |-> FALSE, keep |-> TRUE, value |->
         [positionName |-> Get(position, "position_name"),
          electionDate |-> IF Get(position, "date").t = "str"
                             THEN ParseDateStr(Get(position, "date").s)
                             ELSE basicElection.date,
          city |-> OrElse(Get(position, "city"), JStr("")),
          state |-> OrElse(Get(position, "state"), JStr("")),
          description |-> OrElse(Get(position, "description"),
                                 JStr("Position for " \o basicElection.name)),
          type |-> JStr(PositionType(position)),
          positions |-> PositionsCount(ParseInt(Get(position, "positions")))]]

\* the callback of positions_up_for_election.map: [threw, keep, value]
MapPosition(position, basicElection) ==
  IF GetThrows(position)
    THEN [threw |-> TRUE, keep |-> FALSE, value |-> Undefined]
  ELSE IF ~Truthy(Get(position, "position_name"))
    THEN [threw |-> FALSE, keep |-> FALSE, value |-> JNull]
  ELSE [threw |-> FALSE, keep |-> TRUE, value |->
         [positionName |-> Get(position, "position_name"),
          electionDate |-> basicElection.date,
          city |-> OrElse(Get(position, "city"), JStr("")),
          state |-> OrElse(Get(position, "state"), JStr("")),
          description |-> OrElse(Get(position, "description"),
                                 JStr("Position for " \o basicElection.name)),
          type |-> JStr(PositionType(position)),
          positions |-> PositionsCount(ParseInt(Get(position, "positions")))]]

\* the mapped head h before the mapped and filtered tail r
FilterCons(h, r) ==
  IF h.threw \/ r.threw THEN [threw |-> TRUE, value |-> <<>>]
  ELSE [threw |-> FALSE, value |-> IF h.keep THEN <<h.value>> \o r.value ELSE r.value]

\* .map(...).filter(position => position !== null)
RECURSIVE MapPositions(_, _)
MapPositions(arr, basicElection) ==
  IF arr = <<>> THEN [threw |-> FALSE, value |-> <<>>]
  ELSE FilterCons(MapPosition(Head(arr), basicElection),
                  MapPositions(Tail(arr), basicElection))

\* the end of the try: the mapped positions m are returned
ValidatedPositions(m) ==
  IF m.threw THEN [threw |-> TRUE, value |-> <<>>, diag |-> "TypeError"]
  ELSE [threw |-> FALSE, value |-> m.value,
        diag |-> IF m.value = <<>> THEN "warn: no valid positions" ELSE "info"]

\* a variant that takes a field that is no array for an array of one element
ValidatePositionsFieldWrapped(field, basicElection) ==
  IF ~Truthy(field)
    THEN [threw |-> FALSE, value |-> <<>>, diag |-> "warn: invalid structure"]
    ELSE ValidatedPositions(MapPositions(IF IsArray(field) THEN field.a ELSE <<field>>,
                                         basicElection))

\* the structure check on parsedData.positions_up_for_election, then the map
ValidatePositionsField(field, basicElection) ==
  IF ~Truthy(field) \/ ~IsArray(field)
    THEN [threw |-> FALSE, value |-> <<>>, diag |-> "warn: invalid structure"]
    ELSE ValidatedPositions(MapPositions(field.a, basicElection))

\* the code after JSON.parse(jsonString)
ValidateParsedData(parsed, basicElection) ==
  IF ~parsed.ok
    THEN [threw |-> FALSE, value |-> <<>>, diag |-> "error: JSON.parse"]
  ELSE IF GetThrows(parsed.v)
    THEN [threw |-> TRUE, value |-> <<>>, diag |-> "TypeError"]
  ELSE ValidatePositionsField(Get(parsed.v, "positions_up_for_election"), basicElection)

\* the code after rawPositions.match(...)
ValidateJsonMatch(jsonMatch, basicElection) ==
  IF ~jsonMatch.found
    THEN [threw |-> FALSE, value |-> <<>>, diag |-> "error: no JSON object"]
    ELSE ValidateParsedData(JsonParse(jsonMatch.span), basicElection)

\* the body of the outer try: [threw, value, diag]
ValidateRawPositionsTry(rawPositions, basicElection) ==
  ValidateJsonMatch(BraceMatch(rawPositions), basicElection)

\* the try without a catch: what is thrown is raised to the caller
Uncaught(r) == [raised |-> r.threw, value |-> r.value, diag |-> r.diag]

\* the outer catch of validateRawPositions: log and return []
ValidateCatch(r) ==
  IF r.threw
    THEN [raised |-> FALSE, value |-> <<>>, diag |-> "error: validating"]
    ELSE [raised |-> FALSE, value |-> r.value, diag |-> r.diag]

\* a variant without the outer try/catch
ValidateRawPositionsNoCatch(rawPositions, basicElection) ==
  Uncaught(ValidateRawPositionsTry(rawPositions, basicElection))

\* validateRawPositions: [raised, value, diag]
validateRawPositions(rawPositions, basicElection) ==
  ValidateCatch(ValidateRawPositionsTry(rawPositions, basicElection))

(***************************************************************************)
(* parseAIGeneratedJson                                                    *)
(***************************************************************************)
\* new Date(v)
NewDate(v) ==
  CASE v.t = "str" -> ParseDateStr(v.s)
    [] v.t \in {"null", "num", "bool"} -> JDate("1970-01-01")
    [] v.t = "date" -> v
    [] OTHER -> InvalidDate

\* the date of an election element: isNaN(getTime()) falls back to the seed's date
ValidDateOr(electionDate, basicElection) ==
  IF electionDate = InvalidDate THEN basicElection.date ELSE electionDate
ElectionDate(election, basicElection) ==
  ValidDateOr(NewDate(Get(election, "date")), basicElection)

\* the type of an election element
UpperTypeOr(upperType) ==
  IF upperType \in {"LOCAL", "STATE", "NATIONAL", "UNIVERSITY"} THEN upperType
  ELSE "LOCAL"
TypeOf(type) ==
  IF Truthy(type) /\ type.t = "str" /\ type.s \in ElectionType THEN type.s
  ELSE UpperTypeOr(ToUpperCase(ToStr(OrElse(type, JStr("")))))
ElectionTypeOf(election) == TypeOf(Get(election, "type"))

\* the callback of keyPolicies.map: [threw, value]
MapPolicy(policy) ==
  IF GetThrows(policy) THEN [threw |-> TRUE, value |-> Undefined]
  ELSE [threw |-> FALSE, value |->
         [title |-> OrElse(Get(policy, "title"), JStr("Policy")),
          description |-> OrElse(Get(policy, "description"),
                                 JStr("No description provided"))]]

\* the mapped head h before the mapped tail r of an array.map
Cons(h, r) ==
  IF h.threw \/ r.threw THEN [threw |-> TRUE, value |-> <<>>]
  ELSE [threw |-> FALSE, value |-> <<h.value>> \o r.value]

RECURSIVE MapPolicies(_)
MapPolicies(arr) ==
  IF arr = <<>> THEN [threw |-> FALSE, value |-> <<>>]
  ELSE Cons(MapPolicy(Head(arr)), MapPolicies(Tail(arr)))

\* keyPolicies of a candidate: the mapped array, one default policy otherwise
CandidatePolicies(kp) ==
  IF IsArray(kp) THEN MapPolicies(kp.a)
  ELSE [threw |-> FALSE, value |->
         <<[title |-> JStr("Policy"),
            description |-> JStr("No specific policies mentioned")]>>]

\* sources of a candidate: the array itself, one default source otherwise
CandidateSources(src, sentinels) ==
  IF IsArray(src) THEN src.a ELSE <<JStr(sentinels.sources)>>

\* the candidate object built by the callback of candidates.map
CandidateValue(candidate, policies, sentinels) ==
  IF policies.threw THEN [threw |-> TRUE, value |-> Undefined]
  ELSE [threw |-> FALSE, value |->
         [fullName |-> OrElse(Get(candidate, "fullName"), JStr(sentinels.fullName)),
          currentPosition |-> OrElse(Get(candidate, "currentPosition"), JStr("Candidate")),
          imageUrl |-> OrElse(Get(candidate, "imageUrl"), JStr("")),
          linkedinUrl |-> OrElse(Get(candidate, "linkedinUrl"), JStr("")),
          campaignUrl |-> OrElse(Get(candidate, "campaignUrl"), JStr("")),
          description |-> OrElse(Get(candidate, "description"), JStr(sentinels.description)),
          keyPolicies |-> policies.value,
          additionalNotes |-> OrElse(Get(candidate, "additionalNotes"), JStr("")),
          sources |-> CandidateSources(Get(candidate, "sources"), sentinels),
          party |-> OrElse(Get(candidate, "party"), JStr(sentinels.party)),
          city |-> OrElse(Get(candidate, "city"), JStr("Unknown")),
          state |-> OrElse(Get(candidate, "state"), JStr("Unknown")),
          twitter |-> OrElse(Get(candidate, "twitter"), JStr(""))]]

\* the callback of candidates.map: [threw, value]; `sentinels` are the defaults
\* in which the two versions of the parser differ
MapCandidate(candidate, sentinels) ==
  IF GetThrows(candidate) THEN [threw |-> TRUE, value |-> Undefined]
  ELSE CandidateValue(candidate, CandidatePolicies(Get(candidate, "keyPolicies")), sentinels)

RECURSIVE MapCandidates(_, _)
MapCandidates(arr, sentinels) ==
  IF arr = <<>> THEN [threw |-> FALSE, value |-> <<>>]
  ELSE Cons(MapCandidate(Head(arr), sentinels), MapCandidates(Tail(arr), sentinels))

\* the defaults of the current parser and of the earlier one
CurrentSentinels ==
  [fullName |-> "", description |-> "No description found",
   sources |-> "No sources found", party |-> "No party found", place |-> "",
   placeholder |-> FALSE]
EarlierSentinels ==
  [fullName |-> "Unknown Candidate", description |-> "No description provided",
   sources |-> "Information provided by AI", party |-> "", place |-> "Unknown",
   placeholder |-> TRUE]

\* the candidate the earlier parser adds to an election without candidates
PlaceholderCandidate(description, source) ==
  [fullName |-> JStr("Information Not Available"),
   currentPosition |-> JStr("Candidate"),
   description |-> JStr(description),
   keyPolicies |-> <<[title |-> JStr("Policy"),
                      description |-> JStr("Information not available")]>>,
   sources |-> <<JStr(source)>>,
   additionalNotes |-> JStr(""), imageUrl |-> JStr(""), linkedinUrl |-> JStr(""),
   campaignUrl |-> JStr(""), party |-> JStr(""), city |-> JStr("Unknown"),
   state |-> JStr("Unknown"), twitter |-> JStr("")]

\* the candidates of an election element: the mapped array, [] otherwise
ElectionCandidates(cs, sentinels) ==
  IF IsArray(cs) THEN MapCandidates(cs.a, sentinels)
  ELSE [threw |-> FALSE, value |-> <<>>]

\* the earlier parser adds a placeholder to an election without candidates
WithPlaceholder(candidates, sentinels) ==
  IF sentinels.placeholder /\ candidates = <<>>
    THEN <<PlaceholderCandidate("Candidate information could not be parsed",
                                "Information provided by AI")>>
    ELSE candidates

\* the election object built by the callback of elections.map
ElectionValue(election, mapped, basicElection, sentinels) ==
  IF mapped.threw THEN [threw |-> TRUE, value |-> Undefined]
  ELSE [threw |-> FALSE, value |->
         [position |-> OrElse(Get(election, "position"), JStr(basicElection.name)),
          date |-> ElectionDate(election, basicElection),
          city |-> OrElse(Get(election, "city"), JStr(sentinels.place)),
          state |-> OrElse(Get(election, "state"), JStr(sentinels.place)),
          description |-> OrElse(Get(election, "description"),
                                 JStr("Position for " \o basicElection.name)),
          type |-> JStr(ElectionTypeOf(election)),
          candidates |-> WithPlaceholder(mapped.value, sentinels)]]

\* the callback of elections.map: [threw, value]
MapElection(election, basicElection, sentinels) ==
  IF GetThrows(election) THEN [threw |-> TRUE, value |-> Undefined]
  ELSE ElectionValue(election, ElectionCandidates(Get(election, "candidates"), sentinels),
                     basicElection, sentinels)

RECURSIVE MapElections(_, _, _)
MapElections(arr, basicElection, sentinels) ==
  IF arr = <<>> THEN [threw |-> FALSE, value |-> <<>>]
  ELSE Cons(MapElection(Head(arr), basicElection, sentinels),
            MapElections(Tail(arr), basicElection, sentinels))

\* the end of the try: the mapped elections m
ParsedElections(m) == [threw |-> m.threw, structure |-> TRUE, value |-> m.value]

\* the structure check on parsedData.elections, then the map
ParseElectionsField(field, basicElection, sentinels) ==
  IF ~Truthy(field) \/ ~IsArray(field)
    THEN [threw |-> FALSE, structure |-> FALSE, value |-> <<>>]
    ELSE ParsedElections(MapElections(field.a, basicElection, sentinels))

\* the code after JSON.parse(jsonString)
ParseParsedData(parsed, basicElection, sentinels) ==
  IF ~parsed.ok THEN [threw |-> TRUE, structure |-> FALSE, value |-> <<>>]
  ELSE IF GetThrows(parsed.v) THEN [threw |-> TRUE, structure |-> FALSE, value |-> <<>>]
  ELSE ParseElectionsField(Get(parsed.v, "elections"), basicElection, sentinels)

\* jsonMatch ? jsonMatch[0] : jsonResponse
JsonString(jsonMatch, jsonResponse) ==
  IF jsonMatch.found THEN jsonMatch.span ELSE jsonResponse

\* the body of the try of parseAIGeneratedJson:
\* [threw, structure (FALSE: no elections array), value]
ParseTry(jsonResponse, basicElection, sentinels) ==
  ParseParsedData(JsonParse(JsonString(BraceMatch(jsonResponse), jsonResponse)),
                  basicElection, sentinels)

\* the returns of the current parser: [] on every failure
ParseCatch(r) ==
  IF r.threw
    THEN [raised |-> FALSE, value |-> <<>>, diag |-> "error: parsing"]
  ELSE IF ~r.structure
    THEN [raised |-> FALSE, value |-> <<>>, diag |-> "warn: invalid structure"]
  ELSE IF r.value = <<>>
    THEN [raised |-> FALSE, value |-> <<>>, diag |-> "warn: no elections"]
  ELSE [raised |-> FALSE, value |-> r.value, diag |-> "info"]

\* parseAIGeneratedJson (apis/gemini, current): [raised, value, diag]
parseAIGeneratedJson(jsonResponse, basicElection) ==
  ParseCatch(ParseTry(jsonResponse, basicElection, CurrentSentinels))

\* createFallbackElection: the seed names of the model hold neither
\* "Election - ", "State ", two capitals in a row, "state" nor "national"
createFallbackElection(basicElection) ==
  <<[position |-> JStr(basicElection.name),
     date |-> basicElection.date,
     city |-> JStr("Information Not Available"),
     state |-> JStr("Election"),
     description |-> JStr("Position for " \o basicElection.name),
     type |-> JStr("LOCAL"),
     candidates |-> <<PlaceholderCandidate("Candidate information could not be retrieved",
                                           "Fallback information due to processing error")>>]>>

\* the returns of the earlier parser: the fallback election on every failure
ParseCatchEarlier(r, fallback) ==
  IF r.threw
    THEN [raised |-> FALSE, value |-> fallback, diag |-> "error: parsing"]
  ELSE IF ~r.structure
    THEN [raised |-> FALSE, value |-> fallback, diag |-> "warn: invalid structure"]
  ELSE IF r.value = <<>>
    THEN [raised |-> FALSE, value |-> fallback, diag |-> "warn: no elections"]
  ELSE [raised |-> FALSE, value |-> r.value, diag |-> "info"]

\* parseAIGeneratedJson (earlier version): [raised, value, diag]
parseAIGeneratedJsonEarlier(jsonResponse, basicElection) ==
  ParseCatchEarlier(ParseTry(jsonResponse, basicElection, EarlierSentinels),
                    createFallbackElection(basicElection))

(***************************************************************************)
(* transformElectionType (services/data-transformer)                       *)
(***************************************************************************)
\* a string is folded to upper case and kept when it names a category, LOCAL
\* otherwise; a value that is no string is returned as it is
transformElectionType(type) ==
  IF type.t = "str" THEN JStr(UpperTypeOr(ToUpperCase(type.s))) ELSE type

(***************************************************************************)
(* Sample reply texts, written in the formats the prompts ask for.         *)
(***************************************************************************)
W(x) == <<"w", x>>
S(x) == <<"s", x>>
N(x) == <<"n", x>>
L(x) == <<"l", x>>

RECURSIVE JoinComma(_)
JoinComma(texts) ==
  IF texts = <<>> THEN <<>>
  ELSE IF Len(texts) = 1 THEN texts[1]
  ELSE texts[1] \o <<COMMA>> \o JoinComma(Tail(texts))

\* [ e1, e2, ... ]
TArr(elems) == <<LB>> \o JoinComma(elems) \o <<RB>>
\* { "k1": v1, ... } from pairs <<key, tokens of the value>>
TObj(pairs) ==
  <<LC>> \o JoinComma([i \in 1..Len(pairs) |-> <<S(pairs[i][1]), COLON>> \o pairs[i][2]])
         \o <<RC>>

PositionNames == <<"Mayor", "Clerk", "Judge", "Sheriff", "Treasurer">>

\* a position object as generateElectionQuery describes it
GoodPositionText(k) ==
  TObj(<< <<"position_name", <<S(PositionNames[k])>> >>,
          <<"city", <<S("Laurel")>> >>,
          <<"state", <<S("Delaware")>> >>,
          <<"description", <<S("Role")>> >>,
          <<"position_type", <<S("local")>> >>,
          <<"positions", <<S("3")>> >> >>)

\* a research reply that lists n positions
PositionsReply(n) ==
  TObj(<< <<"positions_up_for_election", TArr([k \in 1..n |-> GoodPositionText(k)])>> >>)

\* a candidate object as generateTransformationPrompt describes it
GoodCandidateText ==
  TObj(<< <<"fullName", <<S("Ann Lee")>> >>,
          <<"currentPosition", <<S("Incumbent")>> >>,
          <<"description", <<S("Bio")>> >>,
          <<"keyPolicies", TArr(<< <<S("Housing")>> >>)>>,
          <<"sources", TArr(<< <<S("Ballotpedia")>> >>)>>,
          <<"party", <<S("Independent")>> >> >>)

\* an election object as generateTransformationPrompt describes it
GoodElectionText(k) ==
  TObj(<< <<"position", <<S(PositionNames[k])>> >>,
          <<"date", <<S("2025-04-01")>> >>,
          <<"city", <<S("Laurel")>> >>,
          <<"state", <<S("Delaware")>> >>,
          <<"description", <<S("Role")>> >>,
          <<"type", <<S("LOCAL")>> >>,
          <<"candidates", TArr(<<GoodCandidateText>>)>> >>)

\* a transformation reply that lists m elections
ElectionsReply(m) ==
  TObj(<< <<"elections", TArr([k \in 1..m |-> GoodElectionText(k)])>> >>)

\* a reply of prose without any JSON
ProseReply == <<W("Sorry"), W("nothing"), W("found")>>

\* a candidate research reply: free text about the candidates of a position
CandidateProse == <<W("Ann"), W("Lee"), W("is"), W("running")>>

\* a reply whose JSON object is cut short
BrokenReply == <<W("Here"), LC, S("elections"), COLON, LB, RC>>

\* the texts the gateway may answer a research request with
ResearchTexts ==
  {ProseReply, BrokenReply, ElectionsReply(1)} \cup {PositionsReply(n) : n \in 0..MaxPositions}
\* the texts the gateway may answer a candidate request with
CandidateTexts == {CandidateProse, ProseReply}
\* the texts the gateway may answer a transformation request with
TransformTexts == {ProseReply, BrokenReply, ElectionsReply(0), ElectionsReply(1)}

(***************************************************************************)
(* chunkArray                                                              *)
(***************************************************************************)
Min(a, b) == IF a <= b THEN a ELSE b
Max(a, b) == IF a >= b THEN a ELSE b

\* a variant that ignores the chunk size
ChunkArrayWhole(array, size) == IF array = <<>> THEN <<>> ELSE <<array>>

RECURSIVE chunkArray(_, _)
chunkArray(array, size) ==
  IF array = <<>> THEN <<>>
  ELSE <<SubSeq(array, 1, Min(size, Len(array)))>>
         \o chunkArray(SubSeq(array, size + 1, Len(array)), size)

(***************************************************************************)
(* Prompts and the gateway request of callGeminiApi.                       *)
(***************************************************************************)
\* generateElectionQuery / generateResearchQuery
ResearchPrompt(s) == [kind |-> "research", seed |-> s]
\* generateCandidatesQuery
CandidatesPrompt(s, position) == [kind |-> "candidates", seed |-> s, position |-> position]
\* generateTransformationPrompt
TransformationPrompt(s, research) == [kind |-> "transform", seed |-> s, research |-> research]

\* callGeminiApi up to its await: the request handed to generateContent.
\* The caller's history is copied and the prompt is pushed on the copy.
\* a variant that turns the search tool on whatever the caller passes
callGeminiApiAlwaysGrounded(s, prompt, useGrounding, conversationHistory) ==
  [seed |-> s,
   stage |-> prompt.kind,
   prompt |-> prompt,
   grounding |-> TRUE,
   contents |-> Append(conversationHistory, [role |-> "user", text |-> prompt])]

callGeminiApi(s, prompt, useGrounding, conversationHistory) ==
  [seed |-> s,
   stage |-> prompt.kind,
   prompt |-> prompt,
   grounding |-> useGrounding,
   contents |-> Append(conversationHistory, [role |-> "user", text |-> prompt])]

Remove(seq, j) == SubSeq(seq, 1, j - 1) \o SubSeq(seq, j + 1, Len(seq))

(***************************************************************************)
(* State.                                                                  *)
(***************************************************************************)
VARIABLES
  path,           \* which aggregator runs: "logging" (ai-logger-integration),
                  \* "sequential" (aggregationService), "chunked" (data-aggregator)
  electionLimit,  \* config.testing.electionLimit
  basicElections, \* what getActiveElections resolved with (seed numbers)
  bpc,            \* position of the aggregator: fetch, await, delay, done, failed
  elections,      \* electionsToProcess (seed numbers)
  idx,            \* the loop index of the aggregator (seed or batch), from 1
  acc,            \* detailedElections / allDetailedElections
  task,           \* per seed: the run of the per-seed pipeline
  inflight,       \* the generateContent calls that have not settled yet
  input,          \* parser runs: the reply text handed to a parser
  op,             \* parser runs: the parser that was called, "none" before the call
  out,            \* parser runs: what the call did, [raised, value, diag]
  main,           \* the top-level workflow: the run of main()
  retry,          \* a run of retryWithBackoff
  loop,           \* a run of the loop of chunkArray
  gateway,        \* a call of callGeminiApi and the lists it holds
  logDir          \* the directory of the AI data logger: "writable" or "readonly"
                  \* for the whole run, or on a disk that has "space" or is "full"

\* the state of the aggregation pipeline and of the parser runs
pipeline ==
  <<path, electionLimit, basicElections, bpc, elections, idx, acc, task, inflight, input, op, out>>

\* the state outside the aggregation pipeline
aux == <<main, retry, loop, gateway, logDir>>

vars == <<pipeline, aux>>
\* what a step of main(), of retryWithBackoff, of chunkArray leaves alone
besidesMain == <<pipeline, retry, loop, gateway, logDir>>
besidesRetry == <<pipeline, main, loop, gateway, logDir>>
besidesLoop == <<pipeline, main, retry, gateway, logDir>>
besidesGateway == <<pipeline, main, retry, loop, logDir>>

\* main() was not called
NotStarted == [pc |-> "idle"]
\* all of it but `v` has not started
AuxIdleBut(v) ==
  /\ IF v = "main" THEN TRUE ELSE main = NotStarted
  /\ IF v = "retry" THEN TRUE ELSE retry = NotStarted
  /\ IF v = "loop" THEN TRUE ELSE loop = NotStarted
  /\ IF v = "gateway" THEN TRUE ELSE gateway = NotStarted
  /\ IF v = "logDir" THEN TRUE ELSE logDir = "writable"
AuxIdle == AuxIdleBut("none")

Paths == {"logging", "sequential", "chunked"}
Seeds == 1..MaxSeeds

\* pc: idle, research_wait, research_sleep, cand_wait, cand_sleep, transform_wait,
\*     returned, threw
\* rawPositions, positions (detailedPositions), k (the sequencer's i, from 1),
\* results: the locals of the pipeline and of the sequencer
\* settled: how the gateway settled each candidate request, in order
\* reqlog: the prompt of every generateContent call of this run, in order
\* ret: the returned detailedInfo;  err: the stage whose error reached the catch
\* log: what the pipeline logged above the info level
\* delays: the timeouts (ms) the sequencer has set between positions, in order
IdleTask ==
  [pc |-> "idle", rawPositions |-> <<>>, positions |-> <<>>, k |-> 0,
   results |-> <<>>, settled |-> <<>>, reqlog |-> <<>>, ret |-> <<>>,
   err |-> "none", log |-> <<>>, delays |-> <<>>]

\* what is left of a finished run once the aggregator has moved on
Summary(t) == [IdleTask EXCEPT !.pc = t.pc, !.ret = t.ret]

Finished(t) == t.pc \in {"returned", "threw"}

\* a run the aggregator has called and not yet left behind
Ran(t) == t.reqlog # <<>>

\* the catch of the per-seed pipeline: log the error and throw it to the caller
Thrown(t, stage) ==
  [t EXCEPT !.pc = "threw", !.err = stage,
            !.log = Append(@, "error: getting detailed election information")]

\* logger.warn / logger.error of a diagnostic; info is not kept
Logged(t, diag) == IF diag = "info" THEN t ELSE [t EXCEPT !.log = Append(@, diag)]

\* a variant of the logger whose operations let a failed write through
AIDataLoggerTryRethrows(writeOk) ==
  [raised |-> ~writeOk, diag |-> IF writeOk THEN "info" ELSE "error: logging"]

\* an AIDataLogger logging operation whose file writes succeed or fail: the
\* whole body is in a try whose catch logs the error and returns
AIDataLoggerTry(writeOk) ==
  [raised |-> FALSE, diag |-> IF writeOk THEN "info" ELSE "error: logging"]

\* fs.writeFileSync and fs.mkdirSync succeed
CanWrite == logDir \in {"writable", "space"}

logElectionQuery(writeOk) == AIDataLoggerTry(writeOk)
logCandidateQuery(writeOk) == AIDataLoggerTry(writeOk)
logGeminiJson(writeOk) == AIDataLoggerTry(writeOk)

\* the message a failed candidate request leaves in the sequencer's results
ErrorPlaceholder(position) ==
  <<W("Error retrieving candidate information for " \o ToStr(position.positionName)
        \o ": Failed to get response from Gemini")>>

\* the research request a per-seed pipeline issues when it is called
ResearchRequest(s) == callGeminiApi(s, ResearchPrompt(s), TRUE, <<>>)

\* a task right after getDetailedElectionInfo(WithRawResponses) was called
Started(s) ==
  [IdleTask EXCEPT !.pc = "research_wait", !.reqlog = <<ResearchPrompt(s)>>]

\* a variant that pushes the candidate turns latest first
LoggingHistoryLatestFirst(s, rawPositions, results) ==
  <<[role |-> "user", text |-> ResearchPrompt(s)],
    [role |-> "model", text |-> rawPositions]>>
  \o [i \in 1..Len(results) |->
        [role |-> "model", text |-> results[Len(results) + 1 - i].candidatesResponse]]

\* the conversation history of the transformation request (logging pipeline)
LoggingHistory(s, rawPositions, results) ==
  <<[role |-> "user", text |-> ResearchPrompt(s)],
    [role |-> "model", text |-> rawPositions]>>
  \o [i \in 1..Len(results) |-> [role |-> "model", text |-> results[i].candidatesResponse]]

\* the transformation request of the logging pipeline
LoggingTransformRequest(s, rawPositions, results) ==
  callGeminiApi(s, TransformationPrompt(s, results), FALSE,
                LoggingHistory(s, rawPositions, results))

\* the transformation request of getDetailedElectionInfo
PlainTransformRequest(s, geminiResponse) ==
  callGeminiApi(s, TransformationPrompt(s, geminiResponse), FALSE,
                <<[role |-> "user", text |-> ResearchPrompt(s)],
                  [role |-> "model", text |-> geminiResponse]>>)

\* no parser was called yet
NoOutput == [raised |-> FALSE, value |-> <<>>, diag |-> "none"]

\* process.env.ELECTION_LIMIT: unset or empty, a numeral, or another text
ElectionLimitEnv == {"", "all", "-1"} \cup {Numeral(l) : l \in 0..MaxLimit}

\* config.testing.electionLimit
ConfigElectionLimit(env) == ParseIntStr(IF env = "" THEN "0" ELSE env)

Init ==
  /\ path \in Paths
  /\ electionLimit \in {JNum(l) : l \in 0..MaxLimit}
  /\ path = "chunked" => electionLimit = JNum(0)
  /\ basicElections = <<>>
  /\ bpc = "fetch"
  /\ elections = <<>>
  /\ idx = 0
  /\ acc = <<>>
  /\ task = [s \in Seeds |-> IdleTask]
  /\ inflight = <<>>
  /\ input = <<>>
  /\ op = "none"
  /\ out = NoOutput
  /\ AuxIdle

(***************************************************************************)
(* The aggregator's continuation when the pipeline of one seed settles.    *)
(***************************************************************************)
\* a variant of the loop that stops the batch at the first seed that fails
FinishInLoopAborts(s, t) ==
  /\ task' = [task EXCEPT ![s] = t]
  /\ acc' = IF t.pc = "returned" THEN acc \o t.ret ELSE acc
  /\ bpc' = IF t.pc = "threw" \/ idx >= Len(elections) THEN "done" ELSE "delay"
  /\ UNCHANGED <<idx, elections>>

\* a variant of the loop that calls the next seed at once after a failed one
FinishInLoopSkipsDelay(s, t) ==
  /\ acc' = IF t.pc = "returned" THEN acc \o t.ret ELSE acc
  /\ IF t.pc = "threw" /\ idx < Len(elections)
       THEN /\ task' = [task EXCEPT ![s] = Summary(t),
                                     ![elections[idx + 1]] = Started(elections[idx + 1])]
            /\ bpc' = "await"
            /\ idx' = idx + 1
       ELSE /\ task' = [task EXCEPT ![s] = t]
            /\ bpc' = IF idx < Len(elections) THEN "delay" ELSE "done"
            /\ idx' = idx
  /\ UNCHANGED elections

\* logging / sequential loop: push on success, log on failure, then wait the
\* inter-seed delay unless this was the last seed
\* a variant that keeps only the elections of the seed that returned last
FinishInLoopReplaces(s, t) ==
  /\ task' = [task EXCEPT ![s] = t]
  /\ acc' = IF t.pc = "returned" THEN t.ret ELSE acc
  /\ bpc' = IF idx < Len(elections) THEN "delay" ELSE "done"
  /\ UNCHANGED <<idx, elections>>

FinishInLoop(s, t) ==
  /\ task' = [task EXCEPT ![s] = t]
  \* the logging loop calls logGeminiJson before the push, inside its try
  /\ acc' = IF t.pc = "returned" /\ ~(path = "logging" /\ logGeminiJson(CanWrite).raised)
              THEN acc \o t.ret ELSE acc
  /\ bpc' = IF idx < Len(elections) THEN "delay" ELSE "done"
  /\ UNCHANGED <<idx, elections>>

\* batchResults.flat().filter(result => result !== null) over the seeds of a batch
RECURSIVE FlatResults(_, _)
FlatResults(tk, batch) ==
  IF batch = <<>> THEN <<>>
  ELSE (IF tk[Head(batch)].pc = "returned" THEN tk[Head(batch)].ret ELSE <<>>)
         \o FlatResults(tk, Tail(batch))

Batches == chunkArray(elections, AggregatorChunkSize)

\* chunked aggregator: Promise.all settles when every seed of the batch has; then
\* the results are pushed and every seed of the next batch is started at once
FinishInBatch(s, t, rest) ==
  LET tk == [task EXCEPT ![s] = t]
      batch == Batches[idx]
      allDone == \A i \in 1..Len(batch) : Finished(tk[batch[i]])
      next == Batches[idx + 1]
  IN  IF ~allDone
        THEN /\ task' = tk
             /\ inflight' = rest
             /\ UNCHANGED <<acc, bpc, idx, elections>>
      ELSE IF idx < Len(Batches)
        THEN /\ task' = [x \in Seeds |->
                          IF \E i \in 1..Len(next) : next[i] = x THEN Started(x)
                          ELSE Summary(tk[x])]
             /\ inflight' = rest \o [i \in 1..Len(next) |-> ResearchRequest(next[i])]
             /\ acc' = acc \o FlatResults(tk, batch)
             /\ idx' = idx + 1
             /\ UNCHANGED <<bpc, elections>>
      ELSE /\ task' = tk
           /\ inflight' = rest
           /\ acc' = acc \o FlatResults(tk, batch)
           /\ bpc' = "done"
           /\ UNCHANGED <<idx, elections>>

\* the pipeline of seed s settles as t; `rest` are the requests left in flight
Settle(s, t, rest) ==
  IF path = "chunked" THEN FinishInBatch(s, t, rest)
  ELSE FinishInLoop(s, t) /\ inflight' = rest

(***************************************************************************)
(* Actions.                                                                *)
(***************************************************************************)
\* getActiveElections resolves with n seed elections
FetchElections(n) ==
  /\ bpc = "fetch"
  /\ basicElections' = [i \in 1..n |-> i]
  /\ LET toProcess == IF path # "chunked" /\ electionLimit.t = "num" /\ electionLimit.n > 0
                        THEN SubSeq(basicElections', 1, Min(electionLimit.n, n))
                        ELSE basicElections'
         first == IF path = "chunked"
                    THEN chunkArray(toProcess, AggregatorChunkSize)[1]
                    ELSE <<1>>
     IN  IF n = 0
           THEN /\ bpc' = "done"
                /\ UNCHANGED <<elections, idx, acc, task, inflight>>
           ELSE /\ bpc' = "await"
                /\ elections' = toProcess
                /\ idx' = 1
                /\ task' = [x \in Seeds |->
                             IF \E i \in 1..Len(first) : first[i] = x THEN Started(x)
                             ELSE task[x]]
                /\ inflight' = [i \in 1..Len(first) |-> ResearchRequest(first[i])]
                /\ acc' = acc
  /\ UNCHANGED <<aux, input, op, out, path, electionLimit>>

\* getActiveElections rejects: the aggregator logs and throws
FetchFails ==
  /\ bpc = "fetch"
  /\ bpc' = "failed"
  /\ UNCHANGED <<aux, input, op, out, path, electionLimit, basicElections, elections, idx, acc, task, inflight>>

\* the code after the sequencer returned `results`: the transformation request
AfterSequencer(s, t, results, rest) ==
  /\ task' = [task EXCEPT ![s] =
                [t EXCEPT !.pc = "transform_wait", !.results = results,
                          !.reqlog = Append(t.reqlog, TransformationPrompt(s, results))]]
  /\ inflight' = Append(rest, LoggingTransformRequest(s, t.rawPositions, results))
  /\ UNCHANGED <<bpc, elections, idx, acc>>

\* the sequencer's request for the position at index i
CandidateRequest(s, t, i, results, rest) ==
  /\ task' = [task EXCEPT ![s] =
                [t EXCEPT !.pc = "cand_wait", !.k = i, !.results = results,
                          !.reqlog = Append(t.reqlog, CandidatesPrompt(s, t.positions[i]))]]
  /\ inflight' = Append(rest, callGeminiApi(s, CandidatesPrompt(s, t.positions[i]), TRUE, <<>>))
  /\ UNCHANGED <<bpc, elections, idx, acc>>

\* the research request of seed inflight[j].seed is answered with `text`
ResearchReply(j, text) ==
  /\ j \in 1..Len(inflight)
  /\ inflight[j].stage = "research"
  /\ LET s == inflight[j].seed
         t == task[s]
     IN  IF path = "logging"
           THEN \* logElectionQuery inside the pipeline's try, then the 30 s timeout
                IF logElectionQuery(CanWrite).raised
                  THEN Settle(s, Thrown([t EXCEPT !.rawPositions = text], "log"),
                              Remove(inflight, j))
                  ELSE /\ task' = [task EXCEPT ![s] =
                                     [t EXCEPT !.pc = "research_sleep", !.rawPositions = text]]
                       /\ inflight' = Remove(inflight, j)
                       /\ UNCHANGED <<bpc, elections, idx, acc>>
           ELSE \* getDetailedElectionInfo asks for the transformation at once
                /\ task' = [task EXCEPT ![s] =
                              [t EXCEPT !.pc = "transform_wait", !.rawPositions = text,
                                        !.reqlog = Append(t.reqlog, TransformationPrompt(s, text))]]
                /\ inflight' = Append(Remove(inflight, j), PlainTransformRequest(s, text))
                /\ UNCHANGED <<bpc, elections, idx, acc>>
  /\ UNCHANGED <<aux, input, op, out, path, electionLimit, basicElections>>

\* a variant whose catch logs and returns an empty list instead of throwing
StageFailsSwallowed(j) ==
  /\ j \in 1..Len(inflight)
  /\ inflight[j].stage \in {"research", "transform"}
  /\ Settle(inflight[j].seed,
            [Thrown(task[inflight[j].seed], inflight[j].stage) EXCEPT !.pc = "returned"],
            Remove(inflight, j))
  /\ UNCHANGED <<aux, input, op, out, path, electionLimit, basicElections>>

\* a variant that goes on to the transformation after the research call failed
StageFailsContinues(j) ==
  /\ j \in 1..Len(inflight)
  /\ inflight[j].stage \in {"research", "transform"}
  /\ IF inflight[j].stage = "research"
       THEN /\ task' = [task EXCEPT ![inflight[j].seed] =
                          [Thrown(@, "research") EXCEPT
                             !.pc = "transform_wait",
                             !.reqlog = Append(@, TransformationPrompt(inflight[j].seed, <<>>))]]
            /\ inflight' = Append(Remove(inflight, j),
                                  PlainTransformRequest(inflight[j].seed, <<>>))
            /\ UNCHANGED <<bpc, elections, idx, acc>>
       ELSE Settle(inflight[j].seed, Thrown(task[inflight[j].seed], inflight[j].stage),
                   Remove(inflight, j))
  /\ UNCHANGED <<aux, input, op, out, path, electionLimit, basicElections>>

\* generateContent rejects a request of the research or the transformation stage:
\* callGeminiApi throws, the per-seed pipeline logs and throws to its caller
StageFails(j) ==
  /\ j \in 1..Len(inflight)
  /\ inflight[j].stage \in {"research", "transform"}
  /\ Settle(inflight[j].seed, Thrown(task[inflight[j].seed], inflight[j].stage),
            Remove(inflight, j))
  /\ UNCHANGED <<aux, input, op, out, path, electionLimit, basicElections>>

\* a variant that asks for the research again when the reply held no JSON
AfterValidationRetries(s, v) ==
  IF v.diag \in {"error: no JSON object", "error: JSON.parse"}
    THEN /\ task' = [task EXCEPT ![s] =
                       [@ EXCEPT !.pc = "research_wait",
                                 !.reqlog = Append(@, ResearchPrompt(s))]]
         /\ inflight' = Append(inflight, ResearchRequest(s))
         /\ UNCHANGED <<bpc, elections, idx, acc>>
  ELSE IF Len(v.value) = 0
    THEN AfterSequencer(s, Logged([task[s] EXCEPT !.positions = v.value], v.diag),
                        <<>>, inflight)
  ELSE CandidateRequest(s, Logged([task[s] EXCEPT !.positions = v.value], v.diag),
                        1, <<>>, inflight)

\* the orchestrator after validateRawPositions returned (or raised) v: the
\* sequencer returns [] at once for no positions, else asks for the first one
AfterValidation(s, v) ==
  IF v.raised THEN Settle(s, Thrown(task[s], "validate"), inflight)
  ELSE IF Len(v.value) = 0
    THEN AfterSequencer(s, Logged([task[s] EXCEPT !.positions = v.value], v.diag),
                        <<>>, inflight)
  ELSE CandidateRequest(s, Logged([task[s] EXCEPT !.positions = v.value], v.diag),
                        1, <<>>, inflight)

\* the 30 s timeout after the research reply ends: validateRawPositions, then
\* getDetailedCandidatesInfoWithLogging up to its first await
ResearchSleepDone(s) ==
  /\ task[s].pc = "research_sleep"
  /\ AfterValidation(s, validateRawPositions(task[s].rawPositions, Seed(s)))
  /\ UNCHANGED <<aux, input, op, out, path, electionLimit, basicElections>>

\* a variant that asks for the next position without a delay
PushedWithoutDelay(s, t, results, rest) ==
  IF t.k < Len(t.positions)
    THEN CandidateRequest(s, t, t.k + 1, results, rest)
    ELSE AfterSequencer(s, t, results, rest)

\* the sequencer after `results` got the entry of position k: the delay before
\* the next position, or the return to the orchestrator after the last one
Pushed(s, t, results, rest) ==
  IF t.k < Len(t.positions)
    THEN /\ task' = [task EXCEPT ![s] =
                       [t EXCEPT !.pc = "cand_sleep", !.results = results,
                                 !.delays = Append(@, PositionDelayMs)]]
         /\ inflight' = rest
         /\ UNCHANGED <<bpc, elections, idx, acc>>
    ELSE AfterSequencer(s, t, results, rest)

\* the sequencer after the request for position k settled: `response` is pushed
AfterCandidate(s, j, response, outcome) ==
  Pushed(s, Logged([task[s] EXCEPT !.settled = Append(@, outcome)],
                   IF outcome.ok THEN "info" ELSE "error: candidate info for position"),
         Append(task[s].results,
                [position |-> task[s].positions[task[s].k], candidatesResponse |-> response]),
         Remove(inflight, j))

\* a candidate request is answered with `text`: logCandidateQuery and the push
\* are in the sequencer's try, whose catch pushes the placeholder
CandidateReply(j, text) ==
  /\ j \in 1..Len(inflight)
  /\ inflight[j].stage = "candidates"
  /\ AfterCandidate(inflight[j].seed, j,
                    IF logCandidateQuery(CanWrite).raised
                      THEN ErrorPlaceholder(task[inflight[j].seed].positions[task[inflight[j].seed].k])
                      ELSE text,
                    [ok |-> TRUE, text |-> text])
  /\ UNCHANGED <<aux, input, op, out, path, electionLimit, basicElections>>

\* a variant whose catch pushes the placeholder and gives up the later positions
CandidateFailsAborts(j) ==
  /\ j \in 1..Len(inflight)
  /\ inflight[j].stage = "candidates"
  /\ AfterSequencer(inflight[j].seed,
                    [task[inflight[j].seed] EXCEPT
                       !.settled = Append(@, [ok |-> FALSE, text |-> <<>>])],
                    Append(task[inflight[j].seed].results,
                           [position |-> task[inflight[j].seed].positions[task[inflight[j].seed].k],
                            candidatesResponse |->
                              ErrorPlaceholder(task[inflight[j].seed].positions[task[inflight[j].seed].k])]),
                    Remove(inflight, j))
  /\ UNCHANGED <<aux, input, op, out, path, electionLimit, basicElections>>

\* a variant whose catch pushes nothing for the failed position
CandidateFailsDrops(j) ==
  /\ j \in 1..Len(inflight)
  /\ inflight[j].stage = "candidates"
  /\ Pushed(inflight[j].seed,
            [task[inflight[j].seed] EXCEPT
               !.settled = Append(@, [ok |-> FALSE, text |-> <<>>])],
            task[inflight[j].seed].results,
            Remove(inflight, j))
  /\ UNCHANGED <<aux, input, op, out, path, electionLimit, basicElections>>

\* a variant in which the failure is never handed to the sequencer's catch
CandidateFailsHangs(j) ==
  /\ j \in 1..Len(inflight)
  /\ inflight[j].stage = "candidates"
  /\ inflight' = Remove(inflight, j)
  /\ UNCHANGED <<aux, input, op, out, path, electionLimit, basicElections, bpc, elections, idx, acc, task>>

\* a candidate request fails: the sequencer's catch pushes a placeholder
CandidateFails(j) ==
  /\ j \in 1..Len(inflight)
  /\ inflight[j].stage = "candidates"
  /\ AfterCandidate(inflight[j].seed, j,
                    ErrorPlaceholder(task[inflight[j].seed].positions[task[inflight[j].seed].k]),
                    [ok |-> FALSE, text |-> <<>>])
  /\ UNCHANGED <<aux, input, op, out, path, electionLimit, basicElections>>

\* the 30 s delay between two positions ends: the next candidate request
CandidateSleepDone(s) ==
  /\ task[s].pc = "cand_sleep"
  /\ CandidateRequest(s, task[s], task[s].k + 1, task[s].results, inflight)
  /\ UNCHANGED <<aux, input, op, out, path, electionLimit, basicElections>>

\* the per-seed pipeline after parseAIGeneratedJson returned (or raised) r
\* a variant whose parser reports nothing when it returns
AfterParseSilent(s, r, rest) ==
  IF r.raised THEN Settle(s, Thrown(task[s], "parse"), rest)
  ELSE Settle(s, [task[s] EXCEPT !.pc = "returned", !.ret = r.value], rest)

AfterParse(s, r, rest) ==
  IF r.raised THEN Settle(s, Thrown(task[s], "parse"), rest)
  ELSE Settle(s, Logged([task[s] EXCEPT !.pc = "returned", !.ret = r.value], r.diag), rest)

\* the transformation request is answered with `text`: parseAIGeneratedJson,
\* and the per-seed pipeline returns
TransformReply(j, text) ==
  /\ j \in 1..Len(inflight)
  /\ inflight[j].stage = "transform"
  /\ AfterParse(inflight[j].seed, parseAIGeneratedJson(text, Seed(inflight[j].seed)),
                Remove(inflight, j))
  /\ UNCHANGED <<aux, input, op, out, path, electionLimit, basicElections>>

\* the delay between two seeds ends: the next seed's pipeline is called
SeedDelayDone ==
  /\ bpc = "delay"
  /\ bpc' = "await"
  /\ idx' = idx + 1
  /\ task' = [task EXCEPT ![elections[idx]] = Summary(task[elections[idx]]),
                          ![elections[idx + 1]] = Started(elections[idx + 1])]
  /\ inflight' = Append(inflight, ResearchRequest(elections[idx + 1]))
  /\ UNCHANGED <<aux, input, op, out, path, electionLimit, basicElections, elections, acc>>

Next ==
  \/ \E n \in 0..MaxSeeds : FetchElections(n)
  \/ FetchFails
  \/ \E j \in 1..MaxSeeds, text \in ResearchTexts : ResearchReply(j, text)
  \/ \E j \in 1..MaxSeeds : StageFails(j)
  \/ \E s \in Seeds : ResearchSleepDone(s)
  \/ \E j \in 1..MaxSeeds, text \in CandidateTexts : CandidateReply(j, text)
  \/ \E j \in 1..MaxSeeds : CandidateFails(j)
  \/ \E s \in Seeds : CandidateSleepDone(s)
  \/ \E j \in 1..MaxSeeds, text \in TransformTexts : TransformReply(j, text)
  \/ SeedDelayDone

Spec == Init /\ [][Next]_vars

(***************************************************************************)
(* The runs of the two sequential aggregators in which every gateway call  *)
(* settles, with a reply or with an error, and every timeout between two   *)
(* positions or between two seeds ends.                                    *)
(***************************************************************************)
InitFair == Init /\ path \in {"logging", "sequential"}

\* generateContent settles a request, with a reply or with an error
GatewaySettles ==
  \E j \in 1..MaxSeeds :
    \/ \E text \in ResearchTexts : ResearchReply(j, text)
    \/ StageFails(j)
    \/ \E text \in CandidateTexts : CandidateReply(j, text)
    \/ CandidateFails(j)
    \/ \E text \in TransformTexts : TransformReply(j, text)
\* a timeout ends: between two positions, between two seeds
TimeoutEnds ==
  \/ \E s \in Seeds : CandidateSleepDone(s)
  \/ SeedDelayDone

NextFair ==
  \/ \E n \in 0..MaxSeeds : FetchElections(n)
  \/ FetchFails
  \/ GatewaySettles
  \/ \E s \in Seeds : ResearchSleepDone(s)
  \/ TimeoutEnds

SpecFair ==
  /\ InitFair
  /\ [][NextFair]_vars
  /\ WF_vars(GatewaySettles)
  /\ WF_vars(TimeoutEnds)

(***************************************************************************)
(* The runs of the three aggregators under every configured election limit *)
(* over short lists of retrieved seeds.                                    *)
(***************************************************************************)
InitLimit ==
  /\ path \in Paths
  /\ electionLimit \in {ConfigElectionLimit(env) : env \in ElectionLimitEnv}
  /\ basicElections = <<>>
  /\ bpc = "fetch"
  /\ elections = <<>>
  /\ idx = 0
  /\ acc = <<>>
  /\ task = [s \in Seeds |-> IdleTask]
  /\ inflight = <<>>
  /\ input = <<>>
  /\ op = "none"
  /\ out = NoOutput
  /\ AuxIdle

NextLimit ==
  \/ \E n \in 0..MaxLimit + 1 : FetchElections(n)
  \/ FetchFails
  \/ GatewaySettles
  \/ \E s \in Seeds : ResearchSleepDone(s)
  \/ TimeoutEnds

SpecLimit == InitLimit /\ [][NextLimit]_vars

(***************************************************************************)
(* getActiveElections: one call on one outcome of the civic election query. *)
(***************************************************************************)
TEST_ELECTION_ID == "2000"
TEST_ELECTION_NAME == "VIP Test Election"

\* the outcomes of civicInfo.elections.electionQuery(): the call fails, or it
\* resolves with response.data.elections missing or a list of elections whose
\* id, name and electionDay are strings or missing
CivicResponses ==
  LET ids == {Undefined, JStr(TEST_ELECTION_ID), JStr("9001")}
      names == {Undefined, JStr(TEST_ELECTION_NAME), JStr("Election A")}
      days == {Undefined, JStr("2025-11-04")}
      election == [id : ids, name : names, electionDay : days]
      lists == UNION {[1..n -> election] : n \in 0..MaxElements}
  IN  {[ok |-> FALSE, elections |-> Undefined], [ok |-> TRUE, elections |-> Undefined]}
        \cup {[ok |-> TRUE, elections |-> JArr(l)] : l \in lists}

\* a variant whose filter looks at the id only
getActiveElectionsIdOnly(response) ==
  IF ~response.ok
    THEN [raised |-> TRUE, value |-> <<>>,
          diag |-> "Failed to fetch elections from Google Civic API"]
  ELSE IF ~Truthy(response.elections)
    THEN [raised |-> FALSE, value |-> <<>>, diag |-> "warn: no elections in the response"]
  ELSE LET realElections ==
             SelectSeq(response.elections.a, LAMBDA e : e.id # JStr(TEST_ELECTION_ID))
       IN  [raised |-> FALSE,
            value |-> [i \in 1..Len(realElections) |->
                         [name |-> OrElse(realElections[i].name, JStr("Unknown Election")).s,
                          date |-> IF Truthy(realElections[i].electionDay)
                                     THEN NewDate(realElections[i].electionDay)
                                     ELSE JDate("now")]],
            diag |-> "info"]

\* getActiveElections on an outcome of the query; a raise carries its message
getActiveElections(response) ==
  IF ~response.ok
    THEN [raised |-> TRUE, value |-> <<>>,
          diag |-> "Failed to fetch elections from Google Civic API"]
  ELSE IF ~Truthy(response.elections)
    THEN [raised |-> FALSE, value |-> <<>>, diag |-> "warn: no elections in the response"]
  ELSE LET realElections ==
             SelectSeq(response.elections.a,
                       LAMBDA e : /\ e.id # JStr(TEST_ELECTION_ID)
                                  /\ e.name # JStr(TEST_ELECTION_NAME))
       IN  [raised |-> FALSE,
            value |-> [i \in 1..Len(realElections) |->
                         [name |-> OrElse(realElections[i].name, JStr("Unknown Election")).s,
                          date |-> IF Truthy(realElections[i].electionDay)
                                     THEN NewDate(realElections[i].electionDay)
                                     ELSE JDate("now")]],
            diag |-> "info"]

InitCivic ==
  /\ path = "logging"
  /\ electionLimit = JNum(0)
  /\ basicElections = <<>>
  /\ bpc = "fetch"
  /\ elections = <<>>
  /\ idx = 0
  /\ acc = <<>>
  /\ task = [s \in Seeds |-> IdleTask]
  /\ inflight = <<>>
  /\ input \in CivicResponses
  /\ op = "none"
  /\ out = NoOutput
  /\ AuxIdle

\* getActiveElections() is called and the query settles as `input`
CallGetActiveElections ==
  /\ op = "none"
  /\ op' = "getActiveElections"
  /\ out' = getActiveElections(input)
  /\ UNCHANGED <<aux, input, path, electionLimit, basicElections, bpc, elections, idx, acc, task, inflight>>

SpecCivic == InitCivic /\ [][CallGetActiveElections]_vars

(***************************************************************************)
(* Parser runs: one of the parsers is called on one reply text.            *)
(***************************************************************************)
\* the JSON texts of the elements of an array in a reply
ElementTexts ==
  {<<L("null")>>, <<N("5")>>, <<S("Mayor")>>, <<LC, RC>>,
   GoodPositionText(1), GoodPositionText(2), GoodElectionText(1), GoodElectionText(2),
   TObj(<< <<"position", <<S("Clerk")>> >>, <<"candidates", TArr(<< <<L("null")>> >>)>> >>)}

\* the arrays of at most MaxElements elements
ArrayTexts ==
  {TArr(es) : es \in UNION {[1..n -> ElementTexts] : n \in 0..MaxElements}}

\* the JSON texts of the value of a top-level field
FieldTexts ==
  {<<L("null")>>, <<L("false")>>, <<N("0")>>, <<N("5")>>, <<S("none")>>, <<LC, RC>>,
   GoodPositionText(1), GoodElectionText(1)} \cup ArrayTexts

\* replies that are one JSON object with one top-level field
ObjectTexts ==
  {TObj(<< <<f, v>> >>) :
     f \in {"elections", "positions_up_for_election", "results"}, v \in FieldTexts}

\* replies that are no JSON object: empty text, prose, other JSON values,
\* unbalanced braces, two objects
OddTexts ==
  {<<>>, ProseReply, <<L("null")>>, <<N("5")>>, <<S("Mayor")>>, <<LB, RB>>, <<LC, RC>>,
   <<LC>>, <<RC>>, <<RC, LC>>, <<LC, LC, RC>>, <<LC, RC, RC>>, <<LC, RC, LC, RC>>,
   <<LC, S("elections"), RC>>, <<LC, S("elections"), COLON, LB, RC>>}

\* a field the reply leaves out
Absent == <<>>
Present(pair) == pair[2] # Absent
\* { "k1": v1, ... } of the pairs whose value is there
TObjOf(pairs) == TObj(SelectSeq(pairs, Present))

\* values of position_type and type: the categories in three casings, a
\* category outside the enumeration, values that are no strings, no value
TypeTexts ==
  {<<S(x)>> : x \in {"local", "Local", "LOCAL", "state", "State", "STATE",
                     "federal", "Federal", "FeDeRaL", "FEDERAL", "national", "National", "NATIONAL",
                     "university", "University", "UNIVERSITY", "county", ""}}
    \cup {<<N("5")>>, <<L("true")>>, <<L("null")>>, Absent}

\* values of positions: numerals, words, numbers, no value
SeatTexts ==
  {<<S(x)>> : x \in {"0", "1", "3", "7", "three", "3 seats", ""}}
    \cup {<<N("2")>>, <<N("3")>>, <<L("null")>>, <<L("true")>>, <<LB, RB>>, <<LC, RC>>, Absent}

\* values of date: calendar dates, text that is no date, values that are no
\* strings, no value
DateTexts ==
  {<<S(x)>> : x \in {"2025-04-01", "2025-11-04", "soon", "N/A", ""}}
    \cup {<<N("5")>>, <<L("true")>>, <<L("null")>>, <<LB, RB>>, <<LC, RC>>, Absent}

\* a position with the given category and seat count
PositionVariantText(type, seats) ==
  TObjOf(<< <<"position_name", <<S("Mayor")>> >>, <<"city", <<S("Laurel")>> >>,
            <<"position_type", type>>, <<"positions", seats>> >>)

\* candidates: as the schema asks, another one, without a name, with empty
\* arrays, without arrays, with policy objects, with sources that are no strings
CandidateElementTexts ==
  {GoodCandidateText,
   TObj(<< <<"fullName", <<S("Bo Diaz")>> >>, <<"keyPolicies", TArr(<< <<S("Parks")>>, <<S("Roads")>> >>)>>,
           <<"sources", TArr(<< <<S("Gazette")>> >>)>> >>),
   TObj(<< <<"currentPosition", <<S("Challenger")>> >>,
           <<"keyPolicies", TArr(<< <<S("Transit")>> >>)>>,
           <<"sources", TArr(<< <<S("Ballotpedia")>> >>)>> >>),
   TObj(<< <<"fullName", <<S("Cy Ford")>> >>, <<"keyPolicies", TArr(<<>>)>>,
           <<"sources", TArr(<<>>)>> >>),
   TObj(<< <<"fullName", <<S("Di Park")>> >> >>),
   TObj(<< <<"fullName", <<S("Ed Ruiz")>> >>,
           <<"keyPolicies", TArr(<<TObj(<< <<"title", <<S("Housing")>> >>,
                                           <<"description", <<S("Build more")>> >> >>)>>)>>,
           <<"sources", TArr(<< <<N("5")>>, <<L("null")>> >>)>> >>),
   <<L("null")>>}

\* the candidate arrays of at most MaxElements elements
CandidateArrayTexts ==
  {TArr(cs) : cs \in UNION {[1..n -> CandidateElementTexts] : n \in 0..MaxElements}}

\* an election with the given date, category and candidates
ElectionVariantText(date, type, candidates) ==
  TObjOf(<< <<"position", <<S("Mayor")>> >>, <<"date", date>>, <<"city", <<S("Laurel")>> >>,
            <<"state", <<S("Delaware")>> >>, <<"description", <<S("Role")>> >>,
            <<"type", type>>, <<"candidates", candidates>> >>)

\* elections whose fields are no strings
OddFieldElectionTexts ==
  {TObj(<< <<"position", <<N("5")>> >>, <<"city", <<LB, RB>> >>, <<"state", <<LC, RC>> >>,
           <<"description", <<L("true")>> >>, <<"candidates", <<S("none")>> >> >>)}

\* replies with one position or one election in which one field varies
VariantTexts ==
  {TObj(<< <<"positions_up_for_election", TArr(<<PositionVariantText(t, s)>>)>> >>) :
     t \in TypeTexts, s \in {Absent, <<S("3")>>}}
  \cup {TObj(<< <<"positions_up_for_election",
                  TArr(<<PositionVariantText(<<S("state")>>, s)>>)>> >>) : s \in SeatTexts}
  \cup {TObj(<< <<"elections",
                  TArr(<<ElectionVariantText(d, t, TArr(<<GoodCandidateText>>))>>)>> >>) :
          d \in DateTexts, t \in {<<S("STATE")>>}}
  \cup {TObj(<< <<"elections",
                  TArr(<<ElectionVariantText(<<S("2025-04-01")>>, t, TArr(<<GoodCandidateText>>))>>)>> >>) :
          t \in TypeTexts}
  \cup {TObj(<< <<"elections",
                  TArr(<<ElectionVariantText(<<S("2025-04-01")>>, <<S("LOCAL")>>, cs)>>)>> >>) :
          cs \in CandidateArrayTexts}
  \cup {TObj(<< <<"elections", TArr(<<e>>)>> >>) : e \in OddFieldElectionTexts}

\* a position that states a date of its own under the key `key`
DatedPositionText(key, date) ==
  TObj(<< <<"position_name", <<S("Mayor")>> >>, <<key, <<S(date)>> >>,
          <<"position_type", <<S("local")>> >> >>)

\* research replies that state a date other than the seed's, for the position
\* or for the election as in the prompt's format
DatedTexts ==
  {TObj(<< <<"positions_up_for_election", TArr(<<DatedPositionText(key, date)>>)>> >>) :
     key \in {"date", "election_date", "electionDate"}, date \in {"2025-04-01", "2025-11-04"}}
  \cup {TObj(<< <<"date", <<S("2025-11-04")>> >>,
                 <<"positions_up_for_election", TArr(<<GoodPositionText(1)>>)>> >>)}

\* a reply text: a body, bare or with prose before and after it
InputTexts ==
  {pre \o body \o post :
     pre \in {<<>>, <<W("Here")>>}, post \in {<<>>, <<W("Done")>>},
     body \in ObjectTexts \cup OddTexts \cup VariantTexts \cup DatedTexts
               \cup (TypeTexts \ {Absent})}

InitParse ==
  /\ path = "logging"
  /\ electionLimit = JNum(0)
  /\ basicElections = <<>>
  /\ bpc = "fetch"
  /\ elections = <<>>
  /\ idx = 0
  /\ acc = <<>>
  /\ task = [s \in Seeds |-> IdleTask]
  /\ inflight = <<>>
  /\ input \in InputTexts
  /\ op = "none"
  /\ out = NoOutput
  /\ AuxIdle

\* validateRawPositions(input, seed) is called
CallValidateRawPositions ==
  /\ op = "none"
  /\ op' = "validateRawPositions"
  /\ out' = validateRawPositions(input, Seed(1))
  /\ UNCHANGED <<aux, input, path, electionLimit, basicElections, bpc, elections, idx, acc, task, inflight>>

\* parseAIGeneratedJson(input, seed) is called
CallParseAIGeneratedJson ==
  /\ op = "none"
  /\ op' = "parseAIGeneratedJson"
  /\ out' = parseAIGeneratedJson(input, Seed(1))
  /\ UNCHANGED <<aux, input, path, electionLimit, basicElections, bpc, elections, idx, acc, task, inflight>>

\* the earlier version of parseAIGeneratedJson is called
CallParseAIGeneratedJsonEarlier ==
  /\ op = "none"
  /\ op' = "parseAIGeneratedJsonEarlier"
  /\ out' = parseAIGeneratedJsonEarlier(input, Seed(1))
  /\ UNCHANGED <<aux, input, path, electionLimit, basicElections, bpc, elections, idx, acc, task, inflight>>

\* transformElectionType(type) is called on the string the text is
CallTransformElectionType ==
  /\ op = "none"
  /\ JsonParse(input).ok
  /\ JsonParse(input).v.t = "str"
  /\ op' = "transformElectionType"
  /\ out' = [raised |-> FALSE, value |-> <<transformElectionType(JsonParse(input).v)>>,
              diag |-> IF ToUpperCase(JsonParse(input).v.s) \in ElectionType
                         THEN "none" ELSE "warn: unknown election type"]
  /\ UNCHANGED <<aux, input, path, electionLimit, basicElections, bpc, elections, idx, acc, task, inflight>>

NextParse ==
  \/ CallValidateRawPositions
  \/ CallParseAIGeneratedJson
  \/ CallParseAIGeneratedJsonEarlier
  \/ CallTransformElectionType

SpecParse == InitParse /\ [][NextParse]_vars

(***************************************************************************)
(* transformElectionData and the schema of its result.                     *)
(***************************************************************************)
\* the hosts of the URL texts of the samples: one that new URL() accepts behind
\* a protocol and one that it rejects
UrlHosts == {"example.org", "not a url"}
StartsWithProtocol(s) == s \in {p \o h : p \in {"http://", "https://"}, h \in UrlHosts}
NewUrlThrows(s) == s \notin {"http://example.org", "https://example.org"}

\* formatUrl after the protocol was added
FormattedOrUndefined(s) == IF NewUrlThrows(s) THEN Undefined ELSE JStr(s)

\* formatUrl behind `url ? formatUrl(url) : undefined`: a falsy value gives
\* undefined, a text without protocol gets https://, a text new URL() rejects
\* and a value without startsWith end in the catch and give undefined
formatUrl(url) ==
  IF ~Truthy(url) \/ url.t # "str" THEN Undefined
  ELSE FormattedOrUndefined(IF StartsWithProtocol(url.s) THEN url.s ELSE "https://" \o url.s)

\* a policy that is a text becomes an object, an object stays
transformPolicy(policy) ==
  IF "t" \in DOMAIN policy
    THEN [title |-> JStr("Policy"), description |-> policy]
    ELSE policy

\* the callback of candidates.map in transformSingleElection
TransformCandidate(candidate) ==
  [candidate EXCEPT !.imageUrl = formatUrl(@),
                    !.linkedinUrl = formatUrl(@),
                    !.campaignUrl = formatUrl(@),
                    !.keyPolicies = [i \in 1..Len(@) |-> transformPolicy(@[i])]]

transformSingleElection(election) ==
  [election EXCEPT
     !.type = transformElectionType(@),
     !.candidates = [j \in 1..Len(@) |-> TransformCandidate(@[j])]]

\* z.string(), z.string().optional(), z.string().url().optional()
ZString(v) == v.t = "str"
ZOptionalString(v) == v.t \in {"str", "undef"}
ZOptionalUrl(v) == v.t = "undef" \/ (v.t = "str" /\ ~NewUrlThrows(v.s))

PolicySchema(policy) == ZString(policy.title) /\ ZString(policy.description)

CandidateSchema(c) ==
  /\ ZOptionalUrl(c.imageUrl)
  /\ ZString(c.fullName)
  /\ ZString(c.currentPosition)
  /\ ZOptionalUrl(c.linkedinUrl)
  /\ ZOptionalUrl(c.campaignUrl)
  /\ ZString(c.description)
  /\ \A i \in 1..Len(c.keyPolicies) : PolicySchema(c.keyPolicies[i])
  /\ ZOptionalString(c.additionalNotes)
  /\ \A i \in 1..Len(c.sources) : ZString(c.sources[i])
  /\ ZOptionalString(c.party)
  /\ ZOptionalString(c.city)
  /\ ZOptionalString(c.state)
  /\ ZOptionalString(c.twitter)

DetailedElectionSchema(e) ==
  /\ ZString(e.position)
  /\ e.date.t = "date" /\ e.date # InvalidDate
  /\ ZString(e.city)
  /\ ZString(e.state)
  /\ ZString(e.description)
  /\ e.type.t = "str" /\ e.type.s \in ElectionType
  /\ \A j \in 1..Len(e.candidates) : CandidateSchema(e.candidates[j])

\* TransformedDataSchema.safeParse of { elections }
TransformedDataSchema(data) ==
  \A i \in 1..Len(data) : DetailedElectionSchema(data[i])

\* a variant that leaves out the elections the schema rejects
ValidatedOrFailedDropsInvalid(transformedElections) ==
  [raised |-> FALSE, value |-> SelectSeq(transformedElections, DetailedElectionSchema),
   diag |-> "info"]

\* validateElectionData of the mapped elections, inside transformElectionData
ValidatedOrFailed(transformedElections) ==
  IF TransformedDataSchema(transformedElections)
    THEN [raised |-> FALSE, value |-> transformedElections, diag |-> "info"]
    ELSE [raised |-> TRUE, value |-> <<>>, diag |-> "Failed to transform election data"]

transformElectionData(rawElections) ==
  ValidatedOrFailed([i \in 1..Len(rawElections) |-> transformSingleElection(rawElections[i])])

(***************************************************************************)
(* The top-level workflow: main() of index.ts and of index-with-logging.ts, *)
(* with storeElectionData writing one record at a time.                    *)
(***************************************************************************)
\* db: chunkArray(elections, 5)
StoreChunkSize == 5

RequiredVars == {"DATABASE_URL", "GOOGLE_API_KEY", "GEMINI_API_KEY"}

\* a variant that does not ask for the model's key
validateConfigWithoutGemini(missing) ==
  IF missing \ {"GEMINI_API_KEY"} # {}
    THEN [raised |-> TRUE, value |-> <<>>,
          diag |-> "Missing required environment variables. Please check your .env file."]
    ELSE [raised |-> FALSE, value |-> <<>>, diag |-> "none"]

\* validateConfig with the required variables in `missing` unset or empty
validateConfig(missing) ==
  IF missing # {}
    THEN [raised |-> TRUE, value |-> <<>>,
          diag |-> "Missing required environment variables. Please check your .env file."]
    ELSE [raised |-> FALSE, value |-> <<>>, diag |-> "none"]

\* a candidate with a URL without protocol, one with it, one that is no URL
UrlCandidateText ==
  TObj(<< <<"fullName", <<S("Bo Diaz")>> >>,
          <<"campaignUrl", <<S("example.org")>> >>,
          <<"linkedinUrl", <<S("https://example.org")>> >>,
          <<"imageUrl", <<S("not a url")>> >> >>)

\* the transformation replies behind what the aggregator returns: no election,
\* elections as the schema asks, without candidates, with two candidates, with
\* fields that are no strings
AggregateTexts ==
  {ProseReply, ElectionsReply(1), ElectionsReply(3),
   TObj(<< <<"elections", TArr(<<ElectionVariantText(<<S("2025-04-01")>>, <<S("state")>>,
                                                     TArr(<<>>))>>)>> >>),
   TObj(<< <<"elections", TArr(<<ElectionVariantText(<<S("2025-11-04")>>, <<S("LOCAL")>>,
                                  TArr(<<GoodCandidateText, UrlCandidateText>>))>>)>> >>)}
    \cup {TObj(<< <<"elections", TArr(<<x>>)>> >>) : x \in OddFieldElectionTexts}

\* the elections the aggregator returns when the seeds' transformation replies
\* are `texts`
RECURSIVE Aggregated(_, _)
Aggregated(texts, s) ==
  IF texts = <<>> THEN <<>>
  ELSE parseAIGeneratedJson(Head(texts), Seed(s)).value \o Aggregated(Tail(texts), s + 1)

\* a run of main(): `calls` are the steps called so far, `db` the records the
\* database holds, (ci, ei, c) the write storeElectionData is waiting for:
\* election ei of chunk ci when c = 0, its candidate c otherwise
MainStart(entry, missing) ==
  [pc |-> "start", entry |-> entry, missing |-> missing, calls |-> <<>>,
   raw |-> <<>>, data |-> <<>>, ci |-> 0, ei |-> 0, c |-> 0, db |-> <<>>,
   err |-> "none", exit |-> -1]

\* the catch of main(): process.exit(1)
MainFailed(m, err) == [m EXCEPT !.pc = "failed", !.err = err, !.exit = 1]

\* main() is called: validateConfig, then the aggregator of the entry point
RunMain ==
  /\ main.pc = "start"
  /\ main' = IF validateConfig(main.missing).raised
               THEN MainFailed([main EXCEPT !.calls = <<"validateConfig">>],
                               validateConfig(main.missing).diag)
               ELSE [main EXCEPT !.pc = "aggregate",
                                 !.calls = <<"validateConfig", "aggregate">>]
  /\ UNCHANGED besidesMain

\* the aggregator rejects
AggregateRejects ==
  /\ main.pc = "aggregate"
  /\ main' = MainFailed(main, IF main.entry = "index-with-logging"
                                THEN "Election data aggregation with logging failed"
                                ELSE "Election data aggregation failed")
  /\ UNCHANGED besidesMain

StoreChunks(m) == chunkArray(m.data, StoreChunkSize)

\* the election storeElection is storing
StoredElection(m) == StoreChunks(m)[m.ci][m.ei]

\* the ids prisma.election.create has given out
ElectionRecords(db) == SelectSeq(db, LAMBDA r : r.kind = "election")

\* the record of the write storeElectionData is waiting for
PendingRecord(m) ==
  IF m.c = 0
    THEN [kind |-> "election", position |-> StoredElection(m).position,
          id |-> Len(ElectionRecords(m.db)) + 1]
    ELSE [kind |-> "candidate", name |-> StoredElection(m).candidates[m.c].fullName,
          electionId |-> ElectionRecords(m.db)[Len(ElectionRecords(m.db))].id]

\* the code after transformElectionData returned or raised `t`:
\* storeElectionData issues its first write
AfterTransform(m, t) ==
  IF t.raised THEN MainFailed(m, t.diag)
  ELSE [m EXCEPT !.pc = "store", !.data = t.value, !.calls = Append(@, "store"),
                 !.ci = 1, !.ei = 1, !.c = 0]

\* a variant that hands an empty aggregation to the transformer
AfterAggregateTransformsEmpty(m, raw) ==
  IF Len(raw) = 0 THEN [m EXCEPT !.pc = "disconnect", !.calls = Append(@, "transform")]
  ELSE AfterTransform([m EXCEPT !.raw = raw, !.calls = Append(@, "transform")],
                      transformElectionData(raw))

\* the code after the aggregator resolved with `raw`
AfterAggregate(m, raw) ==
  IF Len(raw) = 0 THEN [m EXCEPT !.pc = "disconnect"]
  ELSE AfterTransform([m EXCEPT !.raw = raw, !.calls = Append(@, "transform")],
                      transformElectionData(raw))

\* the aggregator resolves with the elections of the replies `texts`
AggregateResolves(texts) ==
  /\ main.pc = "aggregate"
  /\ main' = AfterAggregate(main, Aggregated(texts, 1))
  /\ UNCHANGED besidesMain

\* the loops of storeElectionData, storeElection and storeCandidates after the
\* pending write was done
AfterWrite(m) ==
  IF m.c < Len(StoredElection(m).candidates) THEN [m EXCEPT !.c = @ + 1]
  ELSE IF m.ei < Len(StoreChunks(m)[m.ci]) THEN [m EXCEPT !.ei = @ + 1, !.c = 0]
  ELSE IF m.ci < Len(StoreChunks(m)) THEN [m EXCEPT !.ci = @ + 1, !.ei = 1, !.c = 0]
  ELSE [m EXCEPT !.pc = "disconnect"]

\* prisma creates the pending record
WriteDone ==
  /\ main.pc = "store"
  /\ main' = AfterWrite([main EXCEPT !.db = Append(@, PendingRecord(main))])
  /\ UNCHANGED besidesMain

\* a variant in which a rejected write takes the stored records with it
WriteFailsRollsBack ==
  /\ main.pc = "store"
  /\ main' = MainFailed([main EXCEPT !.db = <<>>], "Failed to store election data in database")
  /\ UNCHANGED besidesMain

\* prisma rejects the pending write: the three catches rethrow up to main()
WriteFails ==
  /\ main.pc = "store"
  /\ main' = MainFailed(main, "Failed to store election data in database")
  /\ UNCHANGED besidesMain

\* the finally of main(): prisma.$disconnect(), then process.exit(0)
Disconnected ==
  /\ main.pc = "disconnect"
  /\ main' = [main EXCEPT !.pc = "completed", !.calls = Append(@, "disconnect"), !.exit = 0]
  /\ UNCHANGED besidesMain

\* the aggregation pipeline and the parsers have not run
PipelineIdle ==
  /\ path = "logging"
  /\ electionLimit = JNum(0)
  /\ basicElections = <<>>
  /\ bpc = "fetch"
  /\ elections = <<>>
  /\ idx = 0
  /\ acc = <<>>
  /\ task = [s \in Seeds |-> IdleTask]
  /\ inflight = <<>>
  /\ input = <<>>
  /\ op = "none"
  /\ out = NoOutput

InitMain ==
  /\ PipelineIdle
  /\ AuxIdleBut("main")
  /\ main \in {MainStart(entry, missing) :
                 entry \in {"index", "index-with-logging"}, missing \in SUBSET RequiredVars}

NextMain ==
  \/ RunMain
  \/ AggregateRejects
  \/ \E texts \in UNION {[1..n -> AggregateTexts] : n \in 0..MaxElements} :
       AggregateResolves(texts)
  \/ WriteDone
  \/ WriteFails
  \/ Disconnected

SpecMain == InitMain /\ [][NextMain]_vars

(***************************************************************************)
(* The logging aggregator limited to its first seed, with a directory of   *)
(* the AI data logger that can be written or not.                          *)
(***************************************************************************)
InitLogging ==
  /\ path = "logging"
  /\ electionLimit = JNum(1)
  /\ basicElections = <<>>
  /\ bpc = "fetch"
  /\ elections = <<>>
  /\ idx = 0
  /\ acc = <<>>
  /\ task = [s \in Seeds |-> IdleTask]
  /\ inflight = <<>>
  /\ input = <<>>
  /\ op = "none"
  /\ out = NoOutput
  /\ AuxIdleBut("logDir")
  /\ logDir \in {"writable", "readonly", "space", "full"}

\* the disk fills up or is freed
LogDirChanges ==
  /\ logDir \in {"space", "full"}
  /\ logDir' = IF logDir = "space" THEN "full" ELSE "space"
  /\ UNCHANGED <<pipeline, main, retry, loop, gateway>>

NextLogging ==
  \/ LogDirChanges
  \/ \E n \in 0..MaxSeeds : FetchElections(n)
  \/ \E j \in 1..MaxSeeds, text \in ResearchTexts : ResearchReply(j, text)
  \/ \E j \in 1..MaxSeeds : StageFails(j)
  \/ \E s \in Seeds : ResearchSleepDone(s)
  \/ \E j \in 1..MaxSeeds, text \in CandidateTexts : CandidateReply(j, text)
  \/ \E j \in 1..MaxSeeds : CandidateFails(j)
  \/ \E s \in Seeds : CandidateSleepDone(s)
  \/ \E j \in 1..MaxSeeds, text \in TransformTexts : TransformReply(j, text)

SpecLogging == InitLogging /\ [][NextLogging]_vars

(***************************************************************************)
(* callGeminiApi and the two lists it holds: the caller's conversation     *)
(* history and the history it sends.                                        *)
(***************************************************************************)
\* the most candidate results of a transformation request's history
MaxTurns == 2

\* the results a sequencer hands to the orchestrator
SequencerResults ==
  UNION {[1..n -> {[position |-> [positionName |-> JStr(PositionNames[1])],
                    candidatesResponse |-> text] : text \in CandidateTexts}] :
           n \in 0..MaxTurns}

\* the calls the pipelines make: [prompt, useGrounding, conversationHistory]
GatewayCalls ==
  {[prompt |-> ResearchPrompt(s), useGrounding |-> TRUE, conversationHistory |-> <<>>] :
     s \in Seeds}
  \cup {[prompt |-> TransformationPrompt(s, results), useGrounding |-> FALSE,
         conversationHistory |-> LoggingHistory(s, raw, results)] :
          s \in Seeds, raw \in {ProseReply, PositionsReply(1)}, results \in SequencerResults}

\* a variant that pushes the prompt on the caller's list
GatewayListsShared(conversationHistory, prompt) ==
  [conversationHistory |-> Append(conversationHistory, [role |-> "user", text |-> prompt]),
   history |-> Append(conversationHistory, [role |-> "user", text |-> prompt])]

\* `const history = [...conversationHistory]; history.push({role: 'user', text:
\* prompt})`: the caller's list and the gateway's own after the push
GatewayLists(conversationHistory, prompt) ==
  [conversationHistory |-> conversationHistory,
   history |-> Append(conversationHistory, [role |-> "user", text |-> prompt])]

\* callGeminiApi(prompt, useGrounding, conversationHistory) up to its await;
\* `passed` is the list as the caller built it
CallGeminiApi(call) ==
  /\ gateway.pc = "idle"
  /\ gateway' = [pc |-> "await", passed |-> call.conversationHistory,
                 prompt |-> call.prompt,
                 lists |-> GatewayLists(call.conversationHistory, call.prompt),
                 request |-> callGeminiApi(call.prompt.seed, call.prompt, call.useGrounding,
                                           call.conversationHistory)]
  /\ UNCHANGED besidesGateway

\* generateContent resolves: the text is returned
GenerateContentResolves ==
  /\ gateway.pc = "await"
  /\ gateway' = [gateway EXCEPT !.pc = "returned"]
  /\ UNCHANGED besidesGateway

\* generateContent rejects: the catch throws 'Failed to get response from Gemini'
GenerateContentRejects ==
  /\ gateway.pc = "await"
  /\ gateway' = [gateway EXCEPT !.pc = "thrown"]
  /\ UNCHANGED besidesGateway

InitGateway ==
  /\ PipelineIdle
  /\ AuxIdle

NextGateway ==
  \/ \E call \in GatewayCalls : CallGeminiApi(call)
  \/ GenerateContentResolves
  \/ GenerateContentRejects

SpecGateway == InitGateway /\ [][NextGateway]_vars

(***************************************************************************)
(* retryWithBackoff: fn is called, a rejection is counted and, below the    *)
(* budget, followed by a sleep of the current delay, which then doubles.    *)
(***************************************************************************)
\* the largest budget and the base delays a run is started with
MaxBudget == 4
InitialDelays == {0, 1, 250, 1000}

\* a default parameter: the default in place of undefined
OrDefault(arg, default) == IF arg = Undefined THEN default ELSE arg.n

\* retryWithBackoff(fn, maxRetries, initialDelay) up to the first `await fn()`;
\* `invoked` counts the calls of fn, `waits` are the sleeps set so far
RetryStart(maxRetries, initialDelay) ==
  [pc |-> "fn", maxRetries |-> OrDefault(maxRetries, DefaultMaxRetries),
   initialDelay |-> OrDefault(initialDelay, DefaultInitialDelay),
   attempt |-> 0, delay |-> OrDefault(initialDelay, DefaultInitialDelay),
   invoked |-> 1, waits |-> <<>>, returned |-> 0, thrown |-> 0]

CallRetryWithBackoff(maxRetries, initialDelay) ==
  /\ retry.pc = "idle"
  /\ retry' = RetryStart(maxRetries, initialDelay)
  /\ UNCHANGED besidesRetry

\* fn resolves: `return await fn()` returns the value of this invocation
FnResolves ==
  /\ retry.pc = "fn"
  /\ retry' = [retry EXCEPT !.pc = "returned", !.returned = retry.invoked]
  /\ UNCHANGED besidesRetry

\* a variant whose budget test lets one more attempt through
AfterCountOneMore(r) ==
  IF r.attempt > r.maxRetries
    THEN [r EXCEPT !.pc = "thrown", !.thrown = r.invoked]
    ELSE [r EXCEPT !.pc = "sleep", !.waits = Append(@, r.delay)]

\* the catch after the attempt was counted
AfterCount(r) ==
  IF r.attempt >= r.maxRetries
    THEN [r EXCEPT !.pc = "thrown", !.thrown = r.invoked]
    ELSE [r EXCEPT !.pc = "sleep", !.waits = Append(@, r.delay)]

\* fn rejects: the catch
FnRejects ==
  /\ retry.pc = "fn"
  /\ retry' = AfterCount([retry EXCEPT !.attempt = @ + 1])
  /\ UNCHANGED besidesRetry

\* a variant whose delay grows by the base delay
RetrySleepDoneLinear ==
  /\ retry.pc = "sleep"
  /\ retry' = [retry EXCEPT !.pc = "fn", !.delay = @ + retry.initialDelay, !.invoked = @ + 1]
  /\ UNCHANGED besidesRetry

\* the sleep ends: the delay doubles and the loop calls fn again
RetrySleepDone ==
  /\ retry.pc = "sleep"
  /\ retry' = [retry EXCEPT !.pc = "fn", !.delay = @ * 2, !.invoked = @ + 1]
  /\ UNCHANGED besidesRetry

InitRetry ==
  /\ PipelineIdle
  /\ AuxIdle

FnSettles == FnResolves \/ FnRejects

NextRetry ==
  \/ \E maxRetries \in {Undefined} \cup {JNum(n) : n \in -1..MaxBudget},
        initialDelay \in {Undefined} \cup {JNum(d) : d \in InitialDelays} :
       CallRetryWithBackoff(maxRetries, initialDelay)
  \/ FnSettles
  \/ RetrySleepDone

SpecRetry == InitRetry /\ [][NextRetry]_vars

\* fn settles and a sleep ends
SpecRetryFair == SpecRetry /\ WF_vars(FnSettles) /\ WF_vars(RetrySleepDone)

(***************************************************************************)
(* chunkArray as the loop it is: for (i = 0; i < array.length; i += size)   *)
(* chunks.push(array.slice(i, i + size)).                                   *)
(***************************************************************************)
\* the longest array and the largest chunk size of a run; a run is followed
\* for one push more than the longest array can need
MaxArrayLen == 7
MaxSize == 6
PushLimit == MaxArrayLen + 1

\* Array.prototype.slice: the index an argument stands for, a negative one
\* counted from the end
SliceIndex(len, k) == IF k < 0 THEN Max(len + k, 0) ELSE Min(k, len)
Slice(array, start, end) ==
  SubSeq(array, SliceIndex(Len(array), start) + 1, SliceIndex(Len(array), end))

\* chunkArray(array, size) up to the first test of the loop
LoopStart(array, size) ==
  [pc |-> "loop", array |-> array, size |-> size, i |-> 0, chunks |-> <<>>]

CallChunkArray(array, size) ==
  /\ loop.pc = "idle"
  /\ loop' = LoopStart(array, size)
  /\ UNCHANGED besidesLoop

\* a variant whose slice takes one element more
ChunkPushOverlaps ==
  /\ loop.pc = "loop"
  /\ loop.i < Len(loop.array)
  /\ Len(loop.chunks) < PushLimit
  /\ loop' = [loop EXCEPT !.chunks = Append(@, Slice(loop.array, loop.i, loop.i + loop.size + 1)),
                          !.i = @ + loop.size]
  /\ UNCHANGED besidesLoop

\* the test holds: one chunk is pushed and i moves on by size
ChunkPush ==
  /\ loop.pc = "loop"
  /\ loop.i < Len(loop.array)
  /\ Len(loop.chunks) < PushLimit
  /\ loop' = [loop EXCEPT !.chunks = Append(@, Slice(loop.array, loop.i, loop.i + loop.size)),
                          !.i = @ + loop.size]
  /\ UNCHANGED besidesLoop

\* the test fails: return chunks
ChunkReturn ==
  /\ loop.pc = "loop"
  /\ ~(loop.i < Len(loop.array))
  /\ loop' = [loop EXCEPT !.pc = "done"]
  /\ UNCHANGED besidesLoop

InitLoop ==
  /\ PipelineIdle
  /\ AuxIdle

NextLoop ==
  \/ \E n \in 0..MaxArrayLen, size \in -2..MaxSize : CallChunkArray([k \in 1..n |-> k], size)
  \/ ChunkPush
  \/ ChunkReturn

SpecLoop == InitLoop /\ [][NextLoop]_vars

\* the loop is not held up
SpecLoopFair == SpecLoop /\ WF_vars(ChunkPush) /\ WF_vars(ChunkReturn)

(***************************************************************************)
(* Properties of the candidate research sequencer.                         *)
(***************************************************************************)
\* the candidate requests among the gateway calls of a run, in order of issue
IsCandidatesPrompt(p) == p.kind = "candidates"
CandidatePrompts(t) == SelectSeq(t.reqlog, IsCandidatesPrompt)

\* how many positions the sequencer has reached: k inside the loop, all the
\* validated positions after it (none before validation)
Reached(t) == IF t.pc \in {"cand_wait", "cand_sleep"} THEN t.k ELSE Len(t.positions)

\* the sequencer has returned its results to the orchestrator
SequencerDone(t) ==
  \/ t.pc \in {"transform_wait", "returned"}
  \/ t.pc = "threw" /\ t.err \in {"transform", "parse"}

\* C1: given N validated positions the sequencer issues exactly N candidate
\* requests, one per position and in the positions' order: at every moment the
\* candidate requests issued so far are those of the positions reached so far,
\* in order, whichever of the earlier requests failed, and all N have been
\* issued when the sequencer returns.
C1_SequencerIssuesNInOrder ==
  \A s \in Seeds :
    Ran(task[s]) =>
      /\ CandidatePrompts(task[s]) =
           [i \in 1..Reached(task[s]) |-> CandidatesPrompt(s, task[s].positions[i])]
      /\ SequencerDone(task[s]) => Len(CandidatePrompts(task[s])) = Len(task[s].positions)

\* C1 happens: the request for position 1 of 2 failed and the request for
\* position 2 was issued all the same
C1_Witness ==
  \E s \in Seeds :
    /\ task[s].pc = "transform_wait"
    /\ Len(task[s].positions) = 2
    /\ ~task[s].settled[1].ok
    /\ Len(CandidatePrompts(task[s])) = 2

\* C2: the accumulator of the sequencer has one entry per settled request, entry
\* i carries position i and the gateway's reply to the request of position i,
\* or the synthesized error message when that request failed; when the
\* sequencer returns there are exactly N entries.
C2_AccumulatorAligned ==
  \A s \in Seeds :
    Ran(task[s]) =>
      /\ Len(task[s].results) = Len(task[s].settled)
      /\ Len(task[s].results) <= Len(task[s].positions)
      /\ task[s].pc = "cand_wait" => Len(task[s].results) = task[s].k - 1
      /\ task[s].pc = "cand_sleep" => Len(task[s].results) = task[s].k
      /\ SequencerDone(task[s]) => Len(task[s].results) = Len(task[s].positions)
      /\ \A i \in 1..Len(task[s].results) :
           /\ task[s].results[i].position = task[s].positions[i]
           /\ task[s].results[i].candidatesResponse =
                IF task[s].settled[i].ok THEN task[s].settled[i].text
                ELSE ErrorPlaceholder(task[s].positions[i])

\* C2 happens: of 2 positions the first was answered and the second failed
C2_Witness ==
  \E s \in Seeds :
    /\ SequencerDone(task[s])
    /\ Len(task[s].positions) = 2
    /\ task[s].settled[1].ok
    /\ ~task[s].settled[2].ok
    /\ task[s].results[2].candidatesResponse = ErrorPlaceholder(task[s].positions[2])

(***************************************************************************)
(* Properties of the aggregators.                                          *)
(***************************************************************************)
\* the seeds that have a request in flight
InflightSeeds == {inflight[j].seed : j \in 1..Len(inflight)}

\* the seeds of the batch the chunked aggregator is waiting for
CurrentBatch == {Batches[idx][i] : i \in 1..Len(Batches[idx])}

Last(seq) == seq[Len(seq)]

\* the gateway stages in the order of the pipeline
StageRank(kind) ==
  CASE kind = "research" -> 1
    [] kind = "candidates" -> 2
    [] OTHER -> 3

\* the requests of seed s that are in flight
InflightOf(s) == {j \in 1..Len(inflight) : inflight[j].seed = s}

\* C5 as stated: the per-seed pipeline never raises to its caller; when a stage
\* of the seed fails it returns an empty list.
C5_NeverRaises ==
  \A s \in Seeds :
    /\ Ran(task[s]) => task[s].pc # "threw"
    /\ Ran(task[s]) /\ task[s].err # "none" =>
         task[s].pc = "returned" /\ task[s].ret = <<>>

\* C5 as amended: when the gateway call of the position research or of the
\* transformation of a seed fails, the per-seed pipeline logs the failure and
\* raises it to its caller, returning nothing; it returns a list only when no
\* such call failed.
C5_LogsAndRaises ==
  \A s \in Seeds :
    Ran(task[s]) =>
      /\ task[s].err # "none" =>
           /\ task[s].pc = "threw"
           /\ task[s].ret = <<>>
           /\ task[s].log # <<>>
           /\ Last(task[s].log) = "error: getting detailed election information"
      /\ task[s].pc = "threw" => task[s].err \in {"research", "transform"}
      /\ task[s].pc = "returned" => task[s].err = "none"

\* C5 happens: the transformation call of a seed failed after the earlier
\* stages had succeeded, and the pipeline raised
C5_Witness ==
  \E s \in Seeds :
    /\ task[s].pc = "threw"
    /\ task[s].err = "transform"
    /\ Len(task[s].reqlog) >= 2

\* C6: the gateway requests of one seed are issued in stage order: one research
\* request first, then the candidate requests (only after validation found
\* positions), then at most one transformation request, after which the
\* pipeline parses and returns; a seed never has two requests in flight, the
\* one in flight is the last one issued, and once a stage has failed up to the
\* orchestrator nothing of that seed is in flight and its last request is the
\* one of the failed stage.
C6_StageOrder ==
  \A s \in Seeds :
    Ran(task[s]) =>
      /\ task[s].reqlog[1].kind = "research"
      /\ \A i \in 2..Len(task[s].reqlog) :
           /\ task[s].reqlog[i].kind # "research"
           /\ task[s].reqlog[i - 1].kind # "transform"
           /\ StageRank(task[s].reqlog[i - 1].kind) <= StageRank(task[s].reqlog[i].kind)
      /\ Cardinality(InflightOf(s)) =
           IF task[s].pc \in {"research_wait", "cand_wait", "transform_wait"} THEN 1 ELSE 0
      /\ \A j \in InflightOf(s) : inflight[j].prompt = Last(task[s].reqlog)
      /\ task[s].pc = "research_wait" <=> Len(task[s].reqlog) = 1 /\ InflightOf(s) # {}
      /\ task[s].pc \in {"cand_wait", "cand_sleep"} =>
           Last(task[s].reqlog).kind = "candidates" /\ task[s].positions # <<>>
      /\ task[s].pc \in {"transform_wait", "returned"} =>
           Last(task[s].reqlog).kind = "transform"
      /\ task[s].err # "none" =>
           task[s].pc = "threw" /\ Last(task[s].reqlog).kind = task[s].err
      /\ task[s].pc = "threw" => task[s].err # "none"

\* C6 happens: a seed went through research, two candidate requests and the
\* transformation, and returned
C6_Witness ==
  \E s \in Seeds :
    /\ task[s].pc = "returned"
    /\ Len(task[s].reqlog) = 4
    /\ task[s].reqlog[2].kind = "candidates"
    /\ task[s].reqlog[4].kind = "transform"

\* the validator of the seed has returned
Validated(t) ==
  \/ t.pc \in {"cand_wait", "cand_sleep", "transform_wait", "returned"}
  \/ t.pc = "threw" /\ t.err \in {"transform", "parse"}

\* C7: when the position validator returns an empty list for a seed, no
\* candidate request and no transformation request is issued for that seed and
\* the orchestrator's result for it is the empty list.
C7_EmptyPositionsShortCircuit ==
  \A s \in Seeds :
    path = "logging" /\ Ran(task[s]) /\ Validated(task[s]) /\ task[s].positions = <<>> =>
      /\ Len(task[s].reqlog) = 1
      /\ task[s].pc = "returned"
      /\ task[s].ret = <<>>

\* how often the last gateway call of a run was attempted in a row
Attempts(reqlog) ==
  Cardinality({i \in 1..Len(reqlog) :
                 \A m \in i..Len(reqlog) : reqlog[m] = Last(reqlog)})

\* C8: a gateway call that fails is retried up to the attempt budget before the
\* failure reaches the orchestrator.
C8_RetriedUpToBudget ==
  \A s \in Seeds :
    Ran(task[s]) /\ task[s].err \in {"research", "transform"} =>
      Attempts(task[s].reqlog) = DefaultMaxRetries

(***************************************************************************)
(* Properties of the parsers.                                              *)
(***************************************************************************)
IsList(v) == DOMAIN v = 1..Len(v)

\* C9: parseAIGeneratedJson and validateRawPositions never raise: for every
\* reply text they return a list.
C9_ParsersNeverRaise ==
  op # "none" => ~out.raised /\ IsList(out.value)

\* C9 happens: an element of the positions array is null, the TypeError of the
\* map callback is caught and the validator returns the empty list
C9_Witness ==
  /\ op = "validateRawPositions"
  /\ out.diag = "error: validating"
  /\ ~out.raised
  /\ out.value = <<>>

\* the top-level array field a parser requires
RequiredField(parser) ==
  IF parser = "validateRawPositions" THEN "positions_up_for_election" ELSE "elections"

\* the parsed reply is an object whose field is missing or is no array
LacksArray(parsed, field) ==
  parsed.ok /\ parsed.v.t = "obj" /\ ~IsArray(Get(parsed.v, field))

\* the reply text holds a JSON object whose field is missing or is no array
FieldMissingOrNotArray(text, field) ==
  BraceMatch(text).found /\ LacksArray(JsonParse(BraceMatch(text).span), field)

ArrayOf(parsed, field) ==
  IF parsed.ok /\ IsArray(Get(parsed.v, field)) THEN Get(parsed.v, field).a ELSE <<>>
\* the array in `field` of the JSON object of a reply text
ReplyArray(text, field) ==
  IF BraceMatch(text).found THEN ArrayOf(JsonParse(BraceMatch(text).span), field) ELSE <<>>

\* the elements that have their required field
HasName(position) == Truthy(Get(position, "position_name"))
HasFullName(candidate) == Truthy(Get(candidate, "fullName"))
\* the values of a field of the elements of an array
FieldOf(arr, key) == [i \in 1..Len(arr) |-> Get(arr[i], key)]
\* the candidates array of an election element of the reply
CandidatesOf(election) ==
  IF IsArray(Get(election, "candidates")) THEN Get(election, "candidates").a ELSE <<>>
\* no element of the array is null
NoNull(arr) == \A i \in 1..Len(arr) : ~GetThrows(arr[i])

\* the names of the positions and candidates of an output
PositionNamesOut(value) == [i \in 1..Len(value) |-> value[i].positionName]
FullNamesOut(candidates) == [j \in 1..Len(candidates) |-> candidates[j].fullName]

\* the output holds exactly the named positions of the array, in order
NamedPositionsKept(arr, value) ==
  PositionNamesOut(value) = FieldOf(SelectSeq(arr, HasName), "position_name")
\* every election of the output holds exactly the named candidates of its
\* element of the array, in order
NamedCandidatesKept(arr, value) ==
  Len(value) = Len(arr) =>
    \A i \in 1..Len(arr) :
      FullNamesOut(value[i].candidates)
        = FieldOf(SelectSeq(CandidatesOf(arr[i]), HasFullName), "fullName")
\* every election of the output holds all candidates of its element of the
\* array, in order, a candidate without a name under the empty name
AllCandidatesKept(arr, value) ==
  Len(value) = Len(arr) =>
    \A i \in 1..Len(arr) :
      /\ Len(value[i].candidates) = Len(CandidatesOf(arr[i]))
      /\ \A j \in 1..Len(CandidatesOf(arr[i])) :
           value[i].candidates[j].fullName
             = OrElse(Get(CandidatesOf(arr[i])[j], "fullName"), JStr(""))

HasPosition(election) == Truthy(Get(election, "position"))
\* the output holds the element of the array under its name
PositionIn(value, name) == \E k \in 1..Len(value) : value[k].positionName = name
ElectionIn(value, position) == \E k \in 1..Len(value) : value[k].position = position

\* C12: no malformed array element (an object without the required field,
\* null, a string, a number) aborts the processing of its siblings: every
\* well-formed element of the reply's array is in the output of
\* validateRawPositions / parseAIGeneratedJson.
C12_SiblingsSurvive ==
  /\ op = "validateRawPositions" =>
       \A i \in 1..Len(ReplyArray(input, "positions_up_for_election")) :
         HasName(ReplyArray(input, "positions_up_for_election")[i]) =>
           PositionIn(out.value,
                      Get(ReplyArray(input, "positions_up_for_election")[i], "position_name"))
  /\ op = "parseAIGeneratedJson" =>
       \A i \in 1..Len(ReplyArray(input, "elections")) :
         HasPosition(ReplyArray(input, "elections")[i]) =>
           ElectionIn(out.value, Get(ReplyArray(input, "elections")[i], "position"))

(***************************************************************************)
(* Properties of the values the parsers return.                            *)
(***************************************************************************)
IsString(v) == v.t = "str"
\* the text fields of an election are strings
TextFieldsAreStrings(e) ==
  IsString(e.position) /\ IsString(e.city) /\ IsString(e.state) /\ IsString(e.description)
\* every source of every candidate is a string
SourcesAreStrings(candidates) ==
  \A j \in 1..Len(candidates) :
    \A k \in 1..Len(candidates[j].sources) : IsString(candidates[j].sources[k])
\* the fields of the documented schema other than the seat count
TypedElection(e) ==
  /\ {"position", "date", "city", "state", "description", "type", "candidates"}
       \subseteq DOMAIN e
  /\ TextFieldsAreStrings(e)
  /\ e.date.t = "date" /\ e.date # InvalidDate
  /\ IsString(e.type) /\ e.type.s \in ElectionType
  /\ IsList(e.candidates)
  /\ SourcesAreStrings(e.candidates)
\* the seat count is there and is an integer
HasSeatCount(e) == "positions" \in DOMAIN e /\ e.positions.t = "num"

\* C13: every DetailedElection that leaves parseAIGeneratedJson is a total
\* value of the documented schema: position, date, city, state, description,
\* type, candidates and seat count are present and of their documented type,
\* whatever JSON value the reply holds for the field.
C13_TotalSchemaValue ==
  op = "parseAIGeneratedJson" =>
    \A i \in 1..Len(out.value) : TypedElection(out.value[i]) /\ HasSeatCount(out.value[i])

\* no candidate of the list has an empty list of sources or of key policies
NoEmptyLists(candidates) ==
  \A j \in 1..Len(candidates) :
    candidates[j].sources # <<>> /\ candidates[j].keyPolicies # <<>>

\* C14: in every candidate of the parser's output neither sources nor
\* keyPolicies is an empty list: for an empty array, or no array, in the
\* reply a single sentinel entry is substituted.
C14_SourcesAndPoliciesNonEmpty ==
  op = "parseAIGeneratedJson" =>
    \A i \in 1..Len(out.value) : NoEmptyLists(out.value[i].candidates)

(***************************************************************************)
(* Round trip of a well-formed transformation reply.                       *)
(***************************************************************************)
\* the text fields of an election and of a candidate in the reply schema
ElectionTextKeys == {"position", "city", "state", "description"}
CandidateTextKeys ==
  {"fullName", "currentPosition", "imageUrl", "linkedinUrl", "campaignUrl",
   "description", "additionalNotes", "party", "city", "state", "twitter"}

\* a text that is not blank
IsText(v) == v.t = "str" /\ v.s # ""
\* a list of texts
IsTextList(v) == IsArray(v) /\ \A k \in 1..Len(v.a) : IsText(v.a[k])
\* every field of `keys` the object supplies is a text
SuppliedAreTexts(obj, keys) == \A key \in keys \cap DOMAIN obj.o : IsText(obj.o[key])

\* a candidate written as the schema asks: a name, texts, lists of texts
WellFormedCandidate(c) ==
  /\ c.t = "obj"
  /\ "fullName" \in DOMAIN c.o
  /\ SuppliedAreTexts(c, CandidateTextKeys)
  /\ IsTextList(Get(c, "keyPolicies")) /\ Get(c, "keyPolicies").a # <<>>
  /\ IsTextList(Get(c, "sources")) /\ Get(c, "sources").a # <<>>
\* an election written as the schema asks
WellFormedElection(e) ==
  /\ e.t = "obj"
  /\ ElectionTextKeys \subseteq DOMAIN e.o
  /\ SuppliedAreTexts(e, ElectionTextKeys)
  /\ IsString(Get(e, "date")) /\ ParseDateStr(Get(e, "date").s) # InvalidDate
  /\ IsString(Get(e, "type")) /\ Get(e, "type").s \in ElectionType
  /\ IsArray(Get(e, "candidates"))
  /\ \A j \in 1..Len(CandidatesOf(e)) : WellFormedCandidate(CandidatesOf(e)[j])
\* a reply whose elections are all written as the schema asks
WellFormedReply(arr) ==
  arr # <<>> /\ \A i \in 1..Len(arr) : WellFormedElection(arr[i])

\* every field of `keys` the object supplies is the field of the record
SuppliedKept(obj, rec, keys) == \A key \in keys \cap DOMAIN obj.o : rec[key] = obj.o[key]
\* the text of a policy of the reply is the title or the description of the policy
PolicyTextKept(text, policy) == policy.title = text \/ policy.description = text
PoliciesKept(texts, policies) ==
  /\ Len(policies) = Len(texts)
  /\ \A k \in 1..Len(texts) : PolicyTextKept(texts[k], policies[k])
\* a candidate of the output holds all of its candidate of the reply
CandidateKept(c, candidate) ==
  /\ SuppliedKept(c, candidate, CandidateTextKeys)
  /\ candidate.sources = Get(c, "sources").a
  /\ PoliciesKept(Get(c, "keyPolicies").a, candidate.keyPolicies)
CandidatesKept(cs, candidates) ==
  /\ Len(candidates) = Len(cs)
  /\ \A j \in 1..Len(cs) : CandidateKept(cs[j], candidates[j])
\* an election of the output holds all of its election of the reply
ElectionKept(e, election) ==
  /\ SuppliedKept(e, election, ElectionTextKeys)
  /\ election.date = JDate(Get(e, "date").s)
  /\ election.type = Get(e, "type")
  /\ CandidatesKept(CandidatesOf(e), election.candidates)
Lossless(arr, value) ==
  /\ Len(value) = Len(arr)
  /\ \A i \in 1..Len(arr) : ElectionKept(arr[i], value[i])

\* C15: for a well-formed transformation reply the output of the parser is
\* lossless: every supplied field of every election and candidate, the text
\* of each key policy written as a string included, is in the corresponding
\* field of the output, only type and date normalized, in reply order.
C15_WellFormedReplyLossless ==
  op = "parseAIGeneratedJson" /\ WellFormedReply(ReplyArray(input, "elections")) =>
    Lossless(ReplyArray(input, "elections"), out.value)

(***************************************************************************)
(* Coercion of categories, seat counts and dates.                          *)
(***************************************************************************)
\* the category a value of position_type or type stands for: the names of
\* the categories in any casing, federal for national, LOCAL for the rest
CategoryOf(v) ==
  CASE v.t = "str" /\ v.s \in {"local", "Local", "LOCAL"} -> "LOCAL"
    [] v.t = "str" /\ v.s \in {"state", "State", "STATE"} -> "STATE"
    [] v.t = "str" /\ v.s \in {"university", "University", "UNIVERSITY"} -> "UNIVERSITY"
    [] v.t = "str" /\ v.s \in {"federal", "Federal", "FeDeRaL", "FEDERAL",
                                "national", "National", "NATIONAL"} -> "NATIONAL"
    [] OTHER -> "LOCAL"

\* the type of every position of the output is the category of its position
\* of the reply, is in the enumeration and is coerced to itself
CategoriesCoerced(named, value) ==
  Len(value) = Len(named) =>
    \A i \in 1..Len(named) :
      /\ value[i].type = JStr(CategoryOf(Get(named[i], "position_type")))
      /\ value[i].type.s \in ElectionType
      /\ PositionType(JObj("position_type" :> value[i].type)) = value[i].type.s

\* C16: the validator's coercion of the category is case-insensitive and
\* total: local, state, university in any casing give LOCAL, STATE,
\* UNIVERSITY, federal or national give NATIONAL, everything else and a
\* missing value give LOCAL; the type is always in the enumeration and
\* coercing a coerced value returns it unchanged.
C16_CategoryCoercion ==
  op = "validateRawPositions" =>
    CategoriesCoerced(SelectSeq(ReplyArray(input, "positions_up_for_election"), HasName),
                      out.value)

\* C16 happens: the reply writes the category as "Federal" and the position
\* comes out as NATIONAL
C16_Witness ==
  /\ op = "validateRawPositions"
  /\ Len(ReplyArray(input, "positions_up_for_election")) = 1
  /\ Get(ReplyArray(input, "positions_up_for_election")[1], "position_type") = JStr("Federal")
  /\ Len(out.value) = 1
  /\ out.value[1].type = JStr("NATIONAL")

\* the category the validator's switch gives to a value
ValidatorCategory(v) == JStr(PositionType(JObj("position_type" :> v)))
\* the type of every election of the output is the validator's category of
\* the type string of its election of the reply
TypesAsValidator(arr, value) ==
  Len(value) = Len(arr) =>
    \A i \in 1..Len(arr) :
      IsString(Get(arr[i], "type")) => value[i].type = ValidatorCategory(Get(arr[i], "type"))

\* C17: the three coercions of ElectionType agree on every input string:
\* parseAIGeneratedJson and transformElectionType map a string to the type
\* the validator maps it to, FEDERAL in any casing to NATIONAL in each.
C17_CoercionSitesAgree ==
  /\ op = "parseAIGeneratedJson" =>
       TypesAsValidator(ReplyArray(input, "elections"), out.value)
  /\ op = "transformElectionType" =>
       out.value[1] = ValidatorCategory(JsonParse(input).v)

\* the seat count the claim gives to a value of positions: the integer of an
\* integer numeral, 1 for everything else
SeatsOf(v) ==
  CASE v.t = "str" /\ v.s = "0" -> 0
    [] v.t = "str" /\ v.s = "3" -> 3
    [] v.t = "str" /\ v.s = "7" -> 7
    [] v.t = "str" /\ v.s \in {"three", "", "1"} -> 1
    [] v.t = "num" -> v.n
    [] OTHER -> 1
\* values of positions the claim speaks of: integer numerals, text without a
\* numeral, numbers, nothing
SeatsClaimed(v) == ~(v.t = "str" /\ v.s = "3 seats")

\* the seat count of every position of the output is an integer, and is the
\* claimed one
SeatsCoerced(named, value) ==
  Len(value) = Len(named) =>
    \A i \in 1..Len(named) :
      /\ value[i].positions.t = "num"
      /\ value[i].positions.n \in Int
      /\ SeatsClaimed(Get(named[i], "positions")) =>
           value[i].positions.n = SeatsOf(Get(named[i], "positions"))

IsCalendarDate(v) == v.t = "str" /\ v.s \in {"2025-04-01", "2025-11-04"}
\* the date field is missing, null or a text that is no date
IsNoDate(v) == v.t \in {"undef", "null"} \/ (v.t = "str" /\ ~IsCalendarDate(v))

\* the date of every election of the output is the date of its election of
\* the reply, the seed's date when there is none
DatesCoerced(arr, value, basicElection) ==
  Len(value) = Len(arr) =>
    \A i \in 1..Len(arr) :
      /\ IsCalendarDate(Get(arr[i], "date")) => value[i].date = JDate(Get(arr[i], "date").s)
      /\ IsNoDate(Get(arr[i], "date")) => value[i].date = basicElection.date

\* C19: for every election element the date of the output is the calendar
\* date parsed from the date field when it is parseable, and the seed's date
\* when the field is missing, null or unparseable.
C19_DateOrSeedDate ==
  op = "parseAIGeneratedJson" =>
    DatesCoerced(ReplyArray(input, "elections"), out.value, Seed(1))

(***************************************************************************)
(* Brace isolation.                                                        *)
(***************************************************************************)
\* the positions of the tokens of a text that are no prose
NonProse(text) == {i \in 1..Len(text) : text[i][1] # "w"}
\* the text between the prose before and the prose after it
Core(text) ==
  IF NonProse(text) = {} THEN <<>>
  ELSE SubSeq(text, SetMin(NonProse(text)), SetMax(NonProse(text)))
\* the text is one JSON object with nothing but prose around it
ObjectInProse(text) == JsonParse(Core(text)).ok /\ JsonParse(Core(text)).v.t = "obj"
\* the text has a "{" before a "}" and the span from its first "{" to its
\* last "}" is no JSON
SpanIsNoJson(text) ==
  /\ Opens(text) # {} /\ Closes(text) # {}
  /\ SetMax(Closes(text)) > SetMin(Opens(text))
  /\ ~JsonParse(SubSeq(text, SetMin(Opens(text)), SetMax(Closes(text)))).ok

\* what the parsers make of a parsed object
ValidatedObject(parsed, basicElection) ==
  ValidateCatch(ValidateParsedData(parsed, basicElection))
ParsedObject(parsed, basicElection) ==
  ParseCatch(ParseParsedData(parsed, basicElection, CurrentSentinels))

Malformed(text) == ~BraceMatch(text).found \/ ~JsonParse(BraceMatch(text).span).ok
\* the requests of one stage among the gateway calls of a run
StageCount(reqlog, kind) == Cardinality({i \in 1..Len(reqlog) : reqlog[i].kind = kind})
\* the run logged the diagnostic
HasLogged(t, diag) == \E i \in 1..Len(t.log) : t.log[i] = diag

\* C21: a malformed reply (no JSON object, or JSON that fails to parse) is
\* never retried: a seed has at most one research and one transformation
\* request; after a malformed research reply the validated positions are the
\* empty list, and after a malformed transformation reply the pipeline
\* returns the empty list with nothing of the seed in flight.
C21_MalformedNeverRetried ==
  \A s \in Seeds :
    /\ StageCount(task[s].reqlog, "research") <= 1
    /\ StageCount(task[s].reqlog, "transform") <= 1
    /\ path = "logging" /\ Ran(task[s]) /\ Validated(task[s])
         /\ Malformed(task[s].rawPositions) =>
         /\ task[s].positions = <<>>
         /\ HasLogged(task[s], "error: no JSON object") \/ HasLogged(task[s], "error: JSON.parse")
         /\ StageCount(task[s].reqlog, "candidates") = 0
    /\ HasLogged(task[s], "error: parsing") =>
         /\ task[s].pc = "returned"
         /\ task[s].ret = <<>>
         /\ InflightOf(s) = {}

\* C21 happens: the research reply of a seed had no JSON object, the seed went
\* on to its transformation, whose reply failed to parse, and returned nothing
C21_Witness ==
  \E s \in Seeds :
    /\ path = "logging"
    /\ task[s].rawPositions = ProseReply
    /\ HasLogged(task[s], "error: parsing")
    /\ task[s].pc = "returned"
    /\ Len(task[s].reqlog) = 2

\* the delays the sequencer should have set by now: one between any two
\* candidate requests it has issued, and the one it is waiting in
DelaysDue(t) ==
  (IF CandidatePrompts(t) = <<>> THEN 0 ELSE Len(CandidatePrompts(t)) - 1)
    + (IF t.pc = "cand_sleep" THEN 1 ELSE 0)

\* C22: between any two consecutive candidate requests of a seed the
\* sequencer waits exactly one delay of the fixed length, whether the earlier
\* request succeeded or failed, and it waits none after the request for the
\* last position.
C22_OneDelayBetweenPositions ==
  \A s \in Seeds :
    Ran(task[s]) =>
      /\ Len(task[s].delays) = DelaysDue(task[s])
      /\ \A i \in 1..Len(task[s].delays) : task[s].delays[i] = PositionDelayMs
      /\ task[s].pc = "cand_sleep" => task[s].k < Len(task[s].positions)
      /\ SequencerDone(task[s]) /\ task[s].positions # <<>> =>
           Len(task[s].delays) = Len(task[s].positions) - 1

\* C22 happens: the request for position 1 of 2 failed, the sequencer waited
\* once and asked for position 2, after which it returned without a delay
C22_Witness ==
  \E s \in Seeds :
    /\ task[s].pc = "transform_wait"
    /\ Len(task[s].positions) = 2
    /\ ~task[s].settled[1].ok
    /\ task[s].delays = <<PositionDelayMs>>

\* one step of a sequential aggregator keeps the delay between two seeds:
\* when the pipeline of a seed settles, returned or thrown, the aggregator
\* waits the delay unless the seed was the last one; the loop index moves, and
\* a seed after the first is called, only in the step that ends the delay
SeedDelayKept ==
  path \in {"logging", "sequential"} =>
    /\ bpc = "await" /\ bpc' # "await" =>
         /\ Finished(task'[elections[idx]])
         /\ bpc' = IF idx < Len(elections) THEN "delay" ELSE "done"
         /\ idx' = idx
    /\ idx >= 1 /\ idx' # idx => bpc = "delay" /\ bpc' = "await" /\ idx' = idx + 1
    /\ \A s \in Seeds :
         idx >= 1 /\ task[s].pc = "idle" /\ task'[s].pc # "idle" =>
           /\ bpc = "delay"
           /\ s = elections[idx + 1]
           /\ Finished(task[elections[idx]])

InSequencer(t) == t.pc \in {"cand_wait", "cand_sleep"}
\* the sequencer has just returned with every position visited once
SequencerReturned(s, t) ==
  /\ t.pc = "transform_wait"
  /\ Len(t.results) = Len(t.positions)
  /\ CandidatePrompts(t) = [i \in 1..Len(t.positions) |-> CandidatesPrompt(s, t.positions[i])]

\* C24: provided every gateway call returns or fails, the sequencer always
\* reaches its terminal state: for any pattern of failures a sequencer inside
\* its loop returns, having visited every position exactly once, and it does
\* not return before the last position was visited.
C24_SequencerTerminates ==
  \A s \in Seeds :
    /\ InSequencer(task[s]) ~> SequencerReturned(s, task[s])
    /\ [](task[s].pc = "transform_wait" => SequencerReturned(s, task[s]))

\* C24 happens: the sequencer has returned after both of its requests failed
C24_Witness ==
  \E s \in Seeds :
    /\ task[s].pc = "transform_wait"
    /\ Len(task[s].positions) = 2
    /\ ~task[s].settled[1].ok
    /\ ~task[s].settled[2].ok
(***************************************************************************)
(* Claims C25..C30: the aggregators.                                       *)
(***************************************************************************)
\* the events logger.warn and logger.error record for a seed
WarnOrError ==
  {"warn: invalid structure", "warn: no elections", "warn: no valid positions",
   "warn: unknown election type", "error: JSON.parse", "error: no JSON object",
   "error: parsing", "error: validating", "error: candidate info for position",
   "error: getting detailed election information"}

\* the elections a finished run adds to the result of the batch
Contribution(t) == IF t.pc = "returned" THEN t.ret ELSE <<>>

HasWarnOrError(t) == \E i \in 1..Len(t.log) : t.log[i] \in WarnOrError

\* C25: a batch run of the sequential aggregator always completes, and every
\* seed of the batch ends with a non-empty contribution to the result or with
\* at least one warn or error event logged for it: no seed finishes with
\* nothing in the result and nothing in the log.
C25_CompletesAndAccounts ==
  /\ (path = "sequential" /\ bpc = "await") ~> (bpc = "done")
  /\ [](\A s \in Seeds :
          Ran(task[s]) /\ Finished(task[s])
            => Contribution(task[s]) # <<>> \/ HasWarnOrError(task[s]))

\* C25 happens: the batch is complete, its last seed returned no election and
\* left a warning, an earlier seed contributed
C25_Witness ==
  /\ path = "sequential"
  /\ bpc = "done"
  /\ Len(elections) > 1
  /\ acc # <<>>
  /\ LET t == task[Last(elections)]
     IN  /\ Ran(t)
         /\ t.pc = "returned"
         /\ t.ret = <<>>
         /\ HasWarnOrError(t)

\* the stages whose requests do research on the web
ResearchStages == {"research", "candidates"}

\* C26: the caller chooses the grounding flag per stage: every position-research
\* request and every candidate request is sent with grounding enabled, and the
\* transformation request is sent with grounding disabled.
C26_GroundingPerStage ==
  \A j \in 1..Len(inflight) :
    /\ inflight[j].stage \in ResearchStages \cup {"transform"}
    /\ inflight[j].grounding <=> inflight[j].stage \in ResearchStages

\* C26 happens: a transformation request is out, without grounding, after the
\* research request and a candidate request of its seed were sent
C26_Witness ==
  \E j \in 1..Len(inflight) :
    /\ inflight[j].stage = "transform"
    /\ ~inflight[j].grounding
    /\ CandidatePrompts(task[inflight[j].seed]) # <<>>
    /\ StageCount(task[inflight[j].seed].reqlog, "research") = 1

\* the model turn of the position at index i: what its request was answered
\* with, or the placeholder of its failure
CandidateTurn(t, i) ==
  [role |-> "model",
   text |-> IF t.settled[i].ok THEN t.settled[i].text
            ELSE ErrorPlaceholder(t.positions[i])]

\* the turns a transformation request of seed s is expected to carry
ExpectedContents(s, t, prompt) ==
  <<[role |-> "user", text |-> ResearchPrompt(s)],
    [role |-> "model", text |-> t.rawPositions]>>
  \o [i \in 1..Len(t.positions) |-> CandidateTurn(t, i)]
  \o <<[role |-> "user", text |-> prompt]>>

\* C27: the transformation request carries the accumulated research as ordered
\* conversation history: the position-research prompt (user), the raw positions
\* reply (model), then one model turn per validated position, in position
\* order, with that position's raw candidate text or its error placeholder; the
\* gateway sends this history followed by the transformation prompt as the
\* final user turn.
C27_TransformationHistory ==
  \A j \in 1..Len(inflight) :
    inflight[j].stage = "transform"
      => /\ inflight[j].prompt.kind = "transform"
         /\ Len(task[inflight[j].seed].settled) = Len(task[inflight[j].seed].positions)
         /\ inflight[j].contents
              = ExpectedContents(inflight[j].seed, task[inflight[j].seed], inflight[j].prompt)

\* C27 happens: a transformation request is out for two positions, the first
\* answered and the second failed
C27_Witness ==
  \E j \in 1..Len(inflight) :
    /\ inflight[j].stage = "transform"
    /\ path = "logging"
    /\ Len(task[inflight[j].seed].positions) = 2
    /\ task[inflight[j].seed].settled[1].ok
    /\ ~task[inflight[j].seed].settled[2].ok
    /\ Len(inflight[j].contents) = 5

\* the elections of the seeds in `seeds`, in that order, thrown seeds left out
RECURSIVE Contributions(_)
Contributions(seeds) ==
  IF seeds = <<>> THEN <<>>
  ELSE Contribution(task[Head(seeds)]) \o Contributions(Tail(seeds))

IsPrefix(a, b) == Len(a) <= Len(b) /\ SubSeq(b, 1, Len(a)) = a

\* seed s settles in this step
Settles(s) == ~Finished(task[s]) /\ Finished(task'[s])

\* one step of a sequential aggregator and the accumulator
AccumulatorKept ==
  /\ IsPrefix(acc, acc')
  /\ path # "chunked"
       => /\ \A s \in Seeds :
               /\ Settles(s) /\ task'[s].pc = "threw" => acc' = acc
               /\ Settles(s) /\ task'[s].pc = "returned" => acc' = acc \o task'[s].ret
               /\ (\A x \in Seeds : ~Settles(x)) => acc' = acc
          /\ bpc = "await"
               => \A x \in Seeds \ {elections[idx]} : task'[x] = task[x]

\* C28: the result accumulator of a batch is append-only and the only state the
\* seeds share: processing a seed never removes, reorders or changes what the
\* seeds before it contributed and touches no other seed's run, a seed whose
\* processing fails leaves the accumulator unchanged, and the final result is
\* the concatenation, in seed input order, of each successful seed's elections.
C28_AppendOnlyAccumulator ==
  /\ [][AccumulatorKept]_vars
  /\ [](bpc = "done" => acc = Contributions(elections))

\* C28 happens: a batch of three is done, the second seed threw, the first and
\* the third contributed
C28_Witness ==
  /\ path # "chunked"
  /\ bpc = "done"
  /\ Len(elections) = 3
  /\ task[elections[1]].pc = "returned"
  /\ task[elections[1]].ret # <<>>
  /\ task[elections[2]].pc = "threw"
  /\ task[elections[3]].pc = "returned"
  /\ task[elections[3]].ret # <<>>
  /\ Len(acc) = Len(task[elections[1]].ret) + Len(task[elections[3]].ret)

\* the configured limit is a number greater than 0
LimitSet == electionLimit.t = "num" /\ electionLimit.n > 0

\* the seeds to process under the configured limit
FirstSeeds ==
  IF LimitSet
    THEN SubSeq(basicElections, 1, Min(electionLimit.n, Len(basicElections)))
    ELSE basicElections

\* C29: when the configured limit L is greater than 0, exactly the first
\* min(L, n) of the n retrieved seed elections are processed, in their original
\* order; when the limit is 0, or is not a positive number, all n seeds are
\* processed.
C29_ElectionLimit ==
  bpc \in {"await", "delay", "done"} => elections = FirstSeeds

\* the elections of a civic response that are not the test election
IsTestElection(e) == e.id = JStr(TEST_ELECTION_ID) \/ e.name = JStr(TEST_ELECTION_NAME)
RealCount(response) ==
  Cardinality({i \in 1..Len(response.elections.a) : ~IsTestElection(response.elections.a[i])})

\* a seed election: a name that is a non-empty text and a valid date
IsSeedList(value) ==
  \A i \in 1..Len(value) :
    /\ value[i].name # ""
    /\ value[i].date.t = "date"
    /\ value[i].date # InvalidDate

\* C30: getActiveElections returns a list of seed elections, the empty list
\* when the civic response has no elections, or, when the civic API call
\* fails, rejects with 'Failed to fetch elections from Google Civic API'; it
\* never returns a partial or undefined result, and the test election (id
\* '2000' or name 'VIP Test Election') is never in the returned list.
C30_ListOrRejection ==
  op = "getActiveElections"
    => /\ out.raised <=> ~input.ok
       /\ out.raised => out.diag = "Failed to fetch elections from Google Civic API"
       /\ ~out.raised => IsSeedList(out.value)
       /\ input.ok /\ input.elections = Undefined => out.value = <<>>
       /\ input.ok /\ input.elections # Undefined
            => /\ Len(out.value) = RealCount(input)
               /\ \A i \in 1..Len(out.value) : out.value[i].name # TEST_ELECTION_NAME

\* C30 happens: the query resolved with the test election under its name and
\* an election without a name, and the call returned the second alone
C30_Witness ==
  /\ op = "getActiveElections"
  /\ input.ok
  /\ input.elections # Undefined
  /\ Len(input.elections.a) = 2
  /\ input.elections.a[1].name = JStr(TEST_ELECTION_NAME)
  /\ input.elections.a[1].id = JStr("9001")
  /\ input.elections.a[2].name = Undefined
  /\ input.elections.a[2].id = JStr("9001")
  /\ Len(out.value) = 1
  /\ out.value[1].name = "Unknown Election"

WorkflowSteps == <<"validateConfig", "aggregate", "transform", "store">>

\* the steps a run has called
StepsOf(m) == SelectSeq(m.calls, LAMBDA step : step # "disconnect")

\* the step an error message comes from
RaisedBy(err) ==
  CASE err = "Missing required environment variables. Please check your .env file." -> 1
    [] err \in {"Election data aggregation failed",
                "Election data aggregation with logging failed"} -> 2
    [] err = "Failed to transform election data" -> 3
    [] err = "Failed to store election data in database" -> 4
    [] OTHER -> 0

\* C35: the top-level workflow runs its steps in the order validate
\* configuration, aggregate, transform, store; when aggregation returns an empty
\* list neither the transform step nor the store step runs and the run ends as
\* completed; and when a step raises no later step runs.
C35_WorkflowOrder ==
  /\ [](/\ IsPrefix(StepsOf(main), WorkflowSteps)
        /\ main.pc \in {"disconnect", "completed"} /\ main.raw = <<>>
             => /\ StepsOf(main) = <<"validateConfig", "aggregate">>
                /\ main.db = <<>>
                /\ main.err = "none"
        /\ main.pc = "failed"
             => /\ RaisedBy(main.err) = Len(StepsOf(main))
                /\ RaisedBy(main.err) < 4 => main.db = <<>>)
  /\ [][/\ main.pc = "disconnect" => main'.pc = "completed" /\ main'.exit = 0
        /\ main.pc = "failed" => main' = main
        /\ Len(main'.calls) > Len(main.calls) => main.err = "none"]_vars

\* C35 happens: the aggregator returned no election and the run completed
\* after validation and aggregation alone
C35_Witness ==
  /\ main.pc = "completed"
  /\ main.raw = <<>>
  /\ main.exit = 0
  /\ main.calls = <<"validateConfig", "aggregate", "disconnect">>

\* the transformer was called and raised
TransformRaised == main.pc = "failed" /\ main.err = "Failed to transform election data"

\* the input elections that fail the schema after their transformation
SchemaInvalid(raw) ==
  {i \in 1..Len(raw) : ~DetailedElectionSchema(transformSingleElection(raw[i]))}

\* C36: transformElectionData is all-or-nothing: it either returns exactly one
\* election per input election, in input order, or it raises 'Failed to
\* transform election data'; one election that fails the schema makes the
\* whole call raise and is never dropped on its own.
C36_AllOrNothing ==
  (\E k \in 1..Len(main.calls) : main.calls[k] = "transform")
    => /\ TransformRaised <=> SchemaInvalid(main.raw) # {}
       /\ TransformRaised => main.data = <<>> /\ main.db = <<>>
       /\ ~TransformRaised
            => /\ Len(main.data) = Len(main.raw)
               /\ \A i \in 1..Len(main.raw) :
                    main.data[i] = transformSingleElection(main.raw[i])

\* C36 happens: of two aggregated elections the second fails the schema and
\* the call raised without a result
C36_Witness ==
  /\ TransformRaised
  /\ Len(main.raw) = 2
  /\ SchemaInvalid(main.raw) = {2}
  /\ main.data = <<>>

\* the records of election i and of its candidates, those of election i + 1,
\* and so on
RECURSIVE WritesFrom(_, _)
WritesFrom(data, i) ==
  IF i > Len(data) THEN <<>>
  ELSE <<[kind |-> "election", position |-> data[i].position, id |-> i]>>
         \o [c \in 1..Len(data[i].candidates) |->
               [kind |-> "candidate", name |-> data[i].candidates[c].fullName,
                electionId |-> i]]
         \o WritesFrom(data, i + 1)

StoreRaised == main.pc = "failed" /\ main.err = "Failed to store election data in database"

\* C37: storeElectionData writes the elections one at a time in input order,
\* the record of an election before its candidates and all candidates of an
\* election before the next election; a write that fails makes the call raise,
\* nothing is written after it, and the records written before it remain.
C37_StoreInOrder ==
  /\ [](/\ IsPrefix(main.db, WritesFrom(main.data, 1))
        /\ main.pc = "store" => Len(main.db) < Len(WritesFrom(main.data, 1))
        /\ main.pc \in {"disconnect", "completed"} => main.db = WritesFrom(main.data, 1))
  /\ [][/\ IsPrefix(main.db, main'.db)
        /\ Len(main'.db) <= Len(main.db) + 1
        /\ main.pc = "store" /\ main'.db = main.db => StoreRaised'
        /\ StoreRaised => main'.db = main.db]_vars

\* C37 happens: the second election has two candidates, the write of its
\* second candidate failed, and the four records written before remain
C37_Witness ==
  /\ StoreRaised
  /\ Len(main.data) = 2
  /\ Len(main.data[2].candidates) = 2
  /\ Len(main.db) = 4
  /\ main.db[3].kind = "election"
  /\ main.db[4] = [kind |-> "candidate", name |-> main.data[2].candidates[1].fullName,
                   electionId |-> 2]

(***************************************************************************)
(* Properties of retryWithBackoff.                                         *)
(***************************************************************************)
RECURSIVE Pow2(_)
Pow2(n) == IF n = 0 THEN 1 ELSE 2 * Pow2(n - 1)

RetryEnded == retry.pc \in {"returned", "thrown"}

C33_BackoffDoubles ==
  /\ [](retry.pc # "idle"
         => /\ \A k \in 1..Len(retry.waits) :
                 retry.waits[k] = retry.initialDelay * Pow2(k - 1)
            /\ Len(retry.waits) = IF retry.pc = "sleep" THEN retry.invoked
                                  ELSE retry.invoked - 1
            /\ retry.pc = "sleep" => retry.attempt = retry.invoked)
  /\ [][retry.pc # "idle"
         => /\ retry'.waits # retry.waits
                => /\ retry.pc = "fn" /\ retry'.pc = "sleep"
                   /\ retry'.invoked = retry.invoked
            /\ retry.pc = "sleep"
                => /\ retry'.pc = "fn" /\ retry'.invoked = retry.invoked + 1
                   /\ retry'.waits = retry.waits
            /\ retry'.pc = "thrown" => retry'.waits = retry.waits]_vars

\* C33 happens: a base delay of 250 ms, three failed invocations and the waits
\* 250, 500 and 1000 ms, the budget spent by the fourth failure
C33_Witness ==
  /\ retry.pc = "thrown"
  /\ retry.initialDelay = 250
  /\ retry.invoked = 4
  /\ retry.waits = <<250, 500, 1000>>

(***************************************************************************)
(* Properties of chunkArray.                                               *)
(***************************************************************************)
RECURSIVE Concat(_)
Concat(chunks) == IF chunks = <<>> THEN <<>> ELSE Head(chunks) \o Concat(Tail(chunks))

\* C40: chunkArray(array, size) with size >= 1 terminates and partitions the
\* array: the chunks concatenated in order give the array, every chunk has
\* between 1 and size elements, and every chunk but the last has exactly size;
\* with size <= 0 and an array that is not empty it does not terminate.
C40_ChunksPartition ==
  /\ [](loop.pc = "done" /\ loop.size >= 1
         => /\ Concat(loop.chunks) = loop.array
            /\ \A k \in 1..Len(loop.chunks) :
                 /\ Len(loop.chunks[k]) >= 1
                 /\ Len(loop.chunks[k]) <= loop.size
                 /\ k < Len(loop.chunks) => Len(loop.chunks[k]) = loop.size)
  /\ (loop.pc = "loop" /\ loop.size >= 1 ~> loop.pc = "done")
  /\ [](loop.pc # "idle" /\ loop.size <= 0 /\ loop.array # <<>>
         => loop.pc = "loop" /\ loop.i < Len(loop.array))

\* C40 happens: seven elements in chunks of three, the last chunk with one
C40_Witness ==
  /\ loop.pc = "done"
  /\ loop.size = 3
  /\ Len(loop.array) = 7
  /\ loop.chunks = <<<<1, 2, 3>>, <<4, 5, 6>>, <<7>>>>

C38_LoggerSideChannel ==
  /\ [](/\ \A writeOk \in BOOLEAN :
             /\ ~logElectionQuery(writeOk).raised
             /\ ~logCandidateQuery(writeOk).raised
             /\ ~logGeminiJson(writeOk).raised
        /\ \A s \in Seeds :
             /\ task[s].err # "log"
             /\ \A i \in 1..Len(task[s].settled) :
                  task[s].settled[i].ok
                    => task[s].results[i].candidatesResponse = task[s].settled[i].text)
  /\ [][\A s \in Seeds :
          /\ task[s].pc = "research_wait" /\ task'[s].pc = "threw"
               => task'[s].err = "research"
          /\ \A text \in TransformTexts :
               /\ TransformReply(1, text) /\ Settles(s)
                    => /\ task'[s].pc = "returned"
                       /\ task'[s].ret = parseAIGeneratedJson(text, Seed(s)).value
                       /\ acc' = acc \o task'[s].ret]_vars

\* C38 happens: the logger's directory cannot be written, the gateway answered
\* the candidate request and the sequencer's entry holds that reply, and the
\* seed's elections were returned and reached the accumulator
C38_Witness ==
  /\ logDir = "readonly"
  /\ bpc = "done"
  /\ task[1].pc = "returned"
  /\ Len(task[1].settled) = 1
  /\ task[1].settled[1].ok
  /\ task[1].results[1].candidatesResponse = task[1].settled[1].text
  /\ task[1].ret # <<>>
  /\ acc = task[1].ret

(***************************************************************************)
(* Properties of the gateway's conversation history.                       *)
(***************************************************************************)
\* C34: callGeminiApi does not change the conversation history list its caller
\* passes: after the call, returned or thrown, the caller's list has the same
\* length and the same turns in the same order as before, and the prompt is
\* added to the gateway's own copy only.
C34_CallerHistoryKept ==
  /\ [](gateway.pc # "idle"
         => /\ gateway.lists.conversationHistory = gateway.passed
            /\ Len(gateway.lists.history) = Len(gateway.passed) + 1
            /\ SubSeq(gateway.lists.history, 1, Len(gateway.passed)) = gateway.passed
            /\ gateway.lists.history[Len(gateway.passed) + 1]
                 = [role |-> "user", text |-> gateway.prompt]
            /\ gateway.request.contents = gateway.lists.history)
  /\ [][gateway.pc # "idle"
         => gateway'.lists.conversationHistory = gateway.lists.conversationHistory]_vars

\* C34 happens: a transformation call with a history of four turns has thrown
\* and the caller's list still has its four turns
C34_Witness ==
  /\ gateway.pc = "thrown"
  /\ gateway.prompt.kind = "transform"
  /\ Len(gateway.passed) = 4
  /\ gateway.lists.conversationHistory = gateway.passed
  /\ Len(gateway.lists.history) = 5

=============================================================================
